---------------------------- MODULE Spec2Model ----------------------------
(***************************************************************************)
(* Client-side search orchestration of the ultra-scale legal search UI:    *)
(* the request gateway (ultraApiService.js) and the useUltraSearch hook    *)
(* (search, fallback, metrics, history, suggestion debounce and cache).    *)
(*                                                                         *)
(* Conventions                                                             *)
(*  - a JavaScript string is the sequence of its code points; code points  *)
(*    above UpperBase are upper-case letters, ToLowerCase maps them down;  *)
(*  - a JavaScript value whose type matters is a tagged record (JsUndef,   *)
(*    JsNull, JsArr, JsStr, JsObj);                                        *)
(*  - performance.now() and Date.now() read the one clock `now`, in ms;    *)
(*  - a mean (a JavaScript double) is kept as the exact fraction           *)
(*    [num, den];                                                          *)
(*  - handlers run to completion: one action is one handler, or one        *)
(*    continuation of an async function between two suspension points.     *)
(***************************************************************************)
EXTENDS Integers, Sequences, FiniteSets, TLC

VARIABLES
    now,                \* the clock read by performance.now() / Date.now()
    requestMetrics,     \* UltraApiService.requestMetrics
    calls,              \* every gateway call issued so far (makeRequest activations)
    searches,           \* every performSearch activation so far
    isSearching,        \* useState(false)
    searchResults,      \* useState([])
    searchMetrics,      \* useState({totalSearches: 0, ...})
    searchSuggestions,  \* useState([])
    recentSearches,     \* useState([])
    suggestionCache,    \* useState(new Map()): sequence of [key, val] in insertion order
    suggestionTimeoutRef, \* suggestionTimeoutRef.current: id of the last timer set, 0 for null
    timers,             \* the debounce timers set and neither fired nor cleared
    fetches,            \* timer callbacks that fired and await getSearchSuggestions
    localStorage,       \* the two persisted slots
    sugLog,             \* observation: how many getSuggestions calls and timer firings
                        \* there were, the calls since the last firing (the burst), the
                        \* length of the burst the last firing ended, the last call,
    histOp,             \* observation: the last operation on the history and its query,
                        \* the metrics records made, the searches issued before the
                        \* last clear
    app,                \* UltraLegalSearchApp: its useState values
    direct              \* calls of basicSearch made on the service itself

vars == <<now, requestMetrics, calls, searches, isSearching, searchResults,
          searchMetrics, searchSuggestions, recentSearches, suggestionCache,
          suggestionTimeoutRef, timers, fetches, localStorage, sugLog, histOp,
          app, direct>>

-----------------------------------------------------------------------------
(* Bounds of the model *)

MaxSearches == 1        \* performSearch activations in one behaviour, with the clock
StepsPerTimeout == 1    \* clock steps that make up the gateway timeout
MaxSteps == 2           \* clock steps in one behaviour
MaxSugCalls == 4        \* getSuggestions calls in one behaviour
MaxFetches == 2         \* suggestion fetches in one behaviour

(* Program constants *)

apiTimeout == 30000
HistoryCap == 10
CacheCap == 100
DebounceMs == 300
SuggestionFetchLimit == 8
MinQueryLen == 2
SuggestionLimit == 8
DefaultPerPage == 50

-----------------------------------------------------------------------------
(* JavaScript values *)

JsUndef == [t |-> "undefined"]
JsNull == [t |-> "null"]
JsArr(s) == [t |-> "array", v |-> s]
JsStr(s) == [t |-> "string", v |-> s]
JsNum(n) == [t |-> "number", v |-> n]
JsObj(r) == [t |-> "object", v |-> r]

\* truthiness of a tagged value (what `x || d` and `if (x)` test)
Truthy(x) ==
    CASE x.t = "undefined" -> FALSE
      [] x.t = "null" -> FALSE
      [] x.t = "string" -> x.v # <<>>
      [] x.t = "number" -> x.v # 0
      [] OTHER -> TRUE

UpperBase == 100
ToLowerCase(s) == [i \in 1..Len(s) |-> IF s[i] > UpperBase THEN s[i] - UpperBase ELSE s[i]]

\* String.prototype.includes
Includes(s, sub) ==
    \E i \in 0..(Len(s) - Len(sub)) :
        \A j \in 1..Len(sub) : s[i + j] = sub[j]

\* Array.prototype.slice(0, n)
SliceTo(s, n) == IF Len(s) <= n THEN s ELSE SubSeq(s, 1, n)

\* Array.prototype.slice(-n)
SliceLast(s, n) == IF Len(s) <= n THEN s ELSE SubSeq(s, Len(s) - n + 1, Len(s))

\* Math.ceil(a / b) for a >= 0, b > 0
CeilDiv(a, b) == (a + b - 1) \div b

RECURSIVE SumSeq(_)
SumSeq(s) == IF s = <<>> THEN 0 ELSE Head(s) + SumSeq(Tail(s))

SeqRange(s) == {s[i] : i \in 1..Len(s)}

\* obj.k of a JavaScript object kept as a function from its keys
Get(obj, k) == IF k \in DOMAIN obj THEN obj[k] ELSE JsUndef

\* an object without the keys that fail Keep
Restrict(obj, Keep(_)) == [k \in {x \in DOMAIN obj : Keep(x)} |-> obj[k]]

\* {...a, ...b}: the keys of both, b winning
Spread(a, b) == [k \in DOMAIN a \cup DOMAIN b |-> IF k \in DOMAIN b THEN b[k] ELSE a[k]]

\* JSON.parse(JSON.stringify(x)) of an object of tagged values: properties that are
\* undefined are dropped, at every level this model nests (objects in objects,
\* objects in arrays)
RECURSIVE JsonValue(_)
JsonValue(x) ==
    CASE x.t = "object" ->
            JsObj([k \in {y \in DOMAIN x.v : x.v[y].t # "undefined"} |-> JsonValue(x.v[k])])
      [] x.t = "array" -> JsArr([i \in 1..Len(x.v) |-> JsonValue(x.v[i])])
      [] OTHER -> x
JsonObject(obj) == JsonValue(JsObj(obj)).v

-----------------------------------------------------------------------------
(* Inputs *)

\* code points: 1..9 lower-case letters, UpperBase + c the upper-case letter of c
SearchQueries == {<<>>, <<1>>, <<1, 2>>, <<2, 1>>}
Pages == {1, 2}
PerPages == {DefaultPerPage, 20}

\* searchFilters objects the presentation layer passes (handleUltraSearch merges
\* activeFilters with queryText; searchWithSuggestions passes {queryText} alone)
PlainFilters(q) == [queryText |-> JsStr(q)]
ActiveFilters(q) ==
    [queryText |-> JsStr(q),
     jurisdictions |-> JsArr(<<>>),
     documentTypes |-> JsArr(<<>>),
     sources |-> JsArr(<<>>),
     dateRange |-> JsNull,
     legalTopics |-> JsArr(<<>>),
     courts |-> JsArr(<<>>),
     qualityFilter |-> JsObj([minConfidence |-> JsNum(70), minCitations |-> JsNum(0)])]
SelectedFilters(q) ==
    [queryText |-> JsStr(q),
     jurisdictions |-> JsArr(<<JsStr(<<1>>)>>),
     documentTypes |-> JsArr(<<JsStr(<<2>>)>>),
     sources |-> JsArr(<<JsStr(<<3>>)>>),
     dateRange |-> JsObj([start |-> JsNum(2020), end |-> JsNum(2021)]),
     legalTopics |-> JsArr(<<JsStr(<<4>>)>>),
     courts |-> JsArr(<<JsStr(<<5>>)>>),
     qualityFilter |-> JsObj([minConfidence |-> JsNum(90), minCitations |-> JsNum(3)])]
FilterSet ==
    UNION {{PlainFilters(q), ActiveFilters(q), SelectedFilters(q)} : q \in SearchQueries}

\* the (searchFilters, page, perPage) triples searches are issued with
SearchInputs ==
    {<<SelectedFilters(<<1, 2>>), 1, DefaultPerPage>>,
     <<PlainFilters(<<2, 1>>), 2, 20>>,
     <<ActiveFilters(<<>>), 1, DefaultPerPage>>}

\* bodies the backend may answer with (JSON objects; a field may be missing)
PrimaryBodies ==
    {[documents |-> <<11, 12>>, total_count |-> 120, page |-> 2, per_page |-> 20,
      total_pages |-> 6, has_next_page |-> TRUE, search_id |-> 77,
      execution_time_ms |-> 5],
     [detail |-> 0]}
FallbackBodies ==
    {[documents |-> <<21>>, total_count |-> 101, page |-> 2, limit |-> 20],
     [detail |-> 0]}

-----------------------------------------------------------------------------
(* RequestGateway: UltraApiService.makeRequest *)

ResponseWindowCap == 100

Mean(s) == IF s = <<>> THEN [num |-> 0, den |-> 1] ELSE [num |-> SumSeq(s), den |-> Len(s)]
SameMean(a, b) == a.num * b.den = b.num * a.den

InitRequestMetrics ==
    [totalRequests |-> 0, successfulRequests |-> 0, failedRequests |-> 0,
     averageResponseTime |-> [num |-> 0, den |-> 1], responseTimeHistory |-> <<>>]

\* updateResponseTimeMetrics that averages before it drops the oldest sample
updateResponseTimeMetricsEarly(rm, responseTime) ==
    LET pushed == Append(rm.responseTimeHistory, responseTime)
        kept == IF Len(pushed) > ResponseWindowCap THEN Tail(pushed) ELSE pushed
    IN [rm EXCEPT !.responseTimeHistory = kept, !.averageResponseTime = Mean(pushed)]

updateResponseTimeMetrics(rm, responseTime) ==
    LET pushed == Append(rm.responseTimeHistory, responseTime)
        kept == IF Len(pushed) > ResponseWindowCap THEN Tail(pushed) ELSE pushed
    IN [rm EXCEPT !.responseTimeHistory = kept, !.averageResponseTime = Mean(kept)]

\* makeRequest up to its first suspension point: the counter and the call sent
makeRequestStart(rm) == [rm EXCEPT !.totalRequests = @ + 1]
NewCall(kind, owner, endpoint, method, body) ==
    [kind |-> kind, owner |-> owner, endpoint |-> endpoint, method |-> method,
     body |-> body, start |-> now, phase |-> "fetch", responseTime |-> 0,
     end |-> 0, response |-> JsUndef]

\* makeRequest after response.json() resolved
makeRequestReturn(rm, responseTime) ==
    updateResponseTimeMetrics([rm EXCEPT !.successfulRequests = @ + 1], responseTime)

\* makeRequestThrow that also puts a latency of 0 into the response-time window
makeRequestThrowTimed(rm) ==
    updateResponseTimeMetrics([rm EXCEPT !.failedRequests = @ + 1], 0)

\* makeRequest's catch block
makeRequestThrow(rm) == [rm EXCEPT !.failedRequests = @ + 1]

\* the ways a call fails, and when each can happen: fetch rejecting (network), the
\* headers arriving with a non-success status, the abort timer firing while fetch is
\* pending, response.json() rejecting after the timer was cleared
FailureReasons == {"network", "status", "timeout", "body"}
CanFail(call, reason) ==
    CASE reason = "network" -> call.phase = "fetch" /\ now - call.start <= apiTimeout
      [] reason = "status" -> call.phase = "fetch" /\ now - call.start <= apiTimeout
      [] reason = "timeout" -> call.phase = "fetch" /\ now - call.start >= apiTimeout
      [] reason = "body" -> call.phase = "json"

\* the call log once call c has settled ("ok" with its body, or "failed")
Settle(c, phase, response) ==
    [calls EXCEPT ![c].phase = phase, ![c].end = now, ![c].response = response]

-----------------------------------------------------------------------------
(* The clock *)

Step == apiTimeout \div StepsPerTimeout

\* time passes, but not past a timer that is due (the abort timer of a call, a
\* debounce timer)
TickTo(maxSteps) ==
    /\ now + Step <= maxSteps * Step
    /\ \A c \in 1..Len(calls) :
           calls[c].phase = "fetch" => now - calls[c].start < apiTimeout
    /\ \A t \in timers : now < t.due
    /\ now' = now + Step
    /\ UNCHANGED <<app, direct, requestMetrics, calls, searches, isSearching, searchResults,
                   searchMetrics, searchSuggestions, recentSearches, suggestionCache,
                   suggestionTimeoutRef, timers, fetches, localStorage, sugLog, histOp>>
Tick == TickTo(MaxSteps)

\* the response headers of a call arrive with a success status: the abort timer is
\* cleared and the response time taken; response.json() is then awaited
HeadersArrive(c) ==
    /\ calls[c].phase = "fetch"
    /\ now - calls[c].start <= apiTimeout
    /\ calls' = [calls EXCEPT ![c].phase = "json", ![c].responseTime = now - calls[c].start]
    /\ UNCHANGED <<now, app, direct, requestMetrics, searches, isSearching, searchResults,
                   searchMetrics, searchSuggestions, recentSearches, suggestionCache,
                   suggestionTimeoutRef, timers, fetches, localStorage, sugLog, histOp>>

-----------------------------------------------------------------------------
(* useUltraSearch: metrics, history, persistence *)

MetricsWindowCap == 50
HistoryMatchLimit == 3

InitSearchMetrics ==
    [totalSearches |-> 0, successfulSearches |-> 0,
     averageResponseTime |-> [num |-> 0, den |-> 1],
     lastSearchTime |-> JsNull, searchHistory |-> <<>>]

\* the last operation on the history store, and the number of direct metrics records
NoHistOp == [op |-> "none", query |-> <<>>, count |-> 0, issued |-> 0]
InitSugLog ==
    [calls |-> 0, fires |-> 0, burst |-> 0, ended |-> 0, query |-> <<>>, cached |-> FALSE]

\* updateSearchMetrics that keeps one record more in the window
updateSearchMetricsWide(prev, executionTime, success) ==
    LET record == [timestamp |-> now, executionTime |-> executionTime, success |-> success]
        history == SliceLast(Append(prev.searchHistory, record), MetricsWindowCap + 1)
        successful == SelectSeq(history, LAMBDA h : h.success /\ h.executionTime > 0)
        successfulTimes == [i \in 1..Len(successful) |-> successful[i].executionTime]
    IN [totalSearches |-> prev.totalSearches + 1,
        successfulSearches |-> IF success THEN prev.successfulSearches + 1
                               ELSE prev.successfulSearches,
        lastSearchTime |-> JsNum(executionTime),
        searchHistory |-> history,
        averageResponseTime |-> IF Len(successfulTimes) > 0 THEN Mean(successfulTimes)
                                ELSE prev.averageResponseTime]

\* updateSearchMetrics that averages over every record of the window
updateSearchMetricsAllRecords(prev, executionTime, success) ==
    LET record == [timestamp |-> now, executionTime |-> executionTime, success |-> success]
        history == SliceLast(Append(prev.searchHistory, record), MetricsWindowCap)
        times == [i \in 1..Len(history) |-> history[i].executionTime]
    IN [totalSearches |-> prev.totalSearches + 1,
        successfulSearches |-> IF success THEN prev.successfulSearches + 1
                               ELSE prev.successfulSearches,
        lastSearchTime |-> JsNum(executionTime),
        searchHistory |-> history,
        averageResponseTime |-> Mean(times)]

\* the updater passed to setSearchMetrics
updateSearchMetrics(prev, executionTime, success) ==
    LET record == [timestamp |-> now, executionTime |-> executionTime, success |-> success]
        history == SliceLast(Append(prev.searchHistory, record), MetricsWindowCap)
        successful == SelectSeq(history, LAMBDA h : h.success /\ h.executionTime > 0)
        successfulTimes == [i \in 1..Len(successful) |-> successful[i].executionTime]
    IN [totalSearches |-> prev.totalSearches + 1,
        successfulSearches |-> IF success THEN prev.successfulSearches + 1
                               ELSE prev.successfulSearches,
        lastSearchTime |-> JsNum(executionTime),
        searchHistory |-> history,
        averageResponseTime |-> IF Len(successfulTimes) > 0 THEN Mean(successfulTimes)
                                ELSE prev.averageResponseTime]

\* JSON.stringify of the history list: the filter snapshots lose undefined properties
StringifyHistory(searchList) ==
    [i \in 1..Len(searchList) |-> [searchList[i] EXCEPT !.filters = JsonObject(@)]]

\* saveSearchData: both slots are written
saveSearchData(searchList, metrics) ==
    [history |-> JsArr(StringifyHistory(searchList)), metrics |-> JsObj(metrics)]

\* the entry addToSearchHistory builds
SearchEntry(searchQuery, filters, results) ==
    [id |-> now, query |-> searchQuery, filters |-> filters, timestamp |-> now,
     resultCount |-> results.totalCount, executionTime |-> results.executionTimeMs]

\* UpdatedSearches that prepends without removing the earlier entry of the query
UpdatedSearchesNoDedup(prev, searchEntry) ==
    SliceTo(<<searchEntry>> \o prev, HistoryCap)

\* UpdatedSearches that does not truncate
UpdatedSearchesNoCap(prev, searchEntry) ==
    <<searchEntry>> \o SelectSeq(prev, LAMBDA e : e.query # searchEntry.query)

\* the updater passed to setRecentSearches
UpdatedSearches(prev, searchEntry) ==
    SliceTo(<<searchEntry>> \o SelectSeq(prev, LAMBDA e : e.query # searchEntry.query),
            HistoryCap)

-----------------------------------------------------------------------------
(* The wire filter and the two search calls *)

Or(x, d) == IF Truthy(x) THEN x ELSE d
\* obj?.k
OptGet(x, k) == IF x.t = "object" THEN Get(x.v, k) ELSE JsUndef
\* arr?.length > 0
NonEmptyArr(x) == x.t = "array" /\ Len(x.v) > 0

DefaultMinConfidence == 70      \* 0.7, in hundredths
Published == <<16, 21, 2>>      \* the string "published"

\* performSearch, lines 401-429: the filter as built, then as pruned
RawWireFilter(f) ==
    [query_text |-> Get(f, "queryText"),
     document_types |-> Get(f, "documentTypes"),
     geographic |-> IF NonEmptyArr(Get(f, "jurisdictions"))
                    THEN JsObj([jurisdictions |-> Get(f, "jurisdictions")])
                    ELSE JsUndef,
     content |-> JsObj([legal_topics |-> Get(f, "legalTopics")]),
     quality |-> JsObj(
         [min_confidence_score |->
              Or(OptGet(Get(f, "qualityFilter"), "minConfidence"), JsNum(DefaultMinConfidence)),
          min_citation_count |->
              Or(OptGet(Get(f, "qualityFilter"), "minCitations"), JsNum(0))]),
     courts |-> Get(f, "courts"),
     sources |-> Get(f, "sources"),
     date_ranges |-> IF Truthy(Get(f, "dateRange"))
                     THEN JsArr(<<JsObj([start_date |-> OptGet(Get(f, "dateRange"), "start"),
                                         end_date |-> OptGet(Get(f, "dateRange"), "end"),
                                         date_type |-> JsStr(Published)])>>)
                     ELSE JsUndef]
UltraSearchFilter(f) ==
    LET raw == RawWireFilter(f)
    IN Restrict(raw, LAMBDA k : ~(raw[k].t = "undefined"
                                   \/ (raw[k].t = "array" /\ raw[k].v = <<>>)))

\* ultraSearch: JSON.stringify(requestBody)
UltraRequestBody(searchFilter, page, perPage) ==
    JsonObject(Spread(searchFilter, [page |-> JsNum(page), per_page |-> JsNum(perPage)]))

\* ultraSearch's catch block: the query handed to basicSearch
FallbackQuery(searchFilter) == Or(Get(searchFilter, "queryText"), JsStr(<<>>))

\* basicSearch: JSON.stringify({query, page, limit: perPage})
BasicRequestBody(query, page, perPage) ==
    JsonObject([query |-> query, page |-> JsNum(page), limit |-> JsNum(perPage)])

\* response.k || d for a number, response.k || [] for an array
NumOr(r, k, d) == IF k \in DOMAIN r /\ r[k] # 0 THEN r[k] ELSE d
ArrOr(r, k) == IF k \in DOMAIN r THEN r[k] ELSE <<>>
BoolOr(r, k) == IF k \in DOMAIN r THEN r[k] ELSE FALSE

\* ultraSearch: the page built from the primary response
UltraPage(response, perPage) ==
    [documents |-> ArrOr(response, "documents"),
     totalCount |-> NumOr(response, "total_count", 0),
     page |-> NumOr(response, "page", 1),
     perPage |-> NumOr(response, "per_page", perPage),
     totalPages |-> NumOr(response, "total_pages", 1),
     hasNextPage |-> BoolOr(response, "has_next_page"),
     searchId |-> IF "search_id" \in DOMAIN response
                  THEN [t |-> "number", v |-> response.search_id] ELSE JsUndef,
     executionTimeMs |-> NumOr(response, "execution_time_ms", 0),
     searchAnalytics |-> <<>>,
     jurisdictionsCovered |-> ArrOr(response, "jurisdictions_covered"),
     sourcesSearched |-> ArrOr(response, "sources_searched"),
     documentTypeDistribution |-> ArrOr(response, "document_type_distribution"),
     qualityDistribution |-> ArrOr(response, "quality_distribution"),
     suggestedRefinements |-> ArrOr(response, "suggested_refinements")]

\* basicSearch: the page built from the fallback response
BasicPage(response, page, perPage) ==
    [documents |-> ArrOr(response, "documents"),
     totalCount |-> NumOr(response, "total_count", 0),
     page |-> NumOr(response, "page", 1),
     perPage |-> NumOr(response, "limit", perPage),
     totalPages |-> CeilDiv(NumOr(response, "total_count", 0), perPage),
     hasNextPage |-> page < CeilDiv(NumOr(response, "total_count", 0), perPage),
     searchId |-> [t |-> "stamp", prefix |-> "basic_search_", v |-> now],
     executionTimeMs |-> 0,
     searchAnalytics |-> <<>>,
     jurisdictionsCovered |-> <<>>,
     sourcesSearched |-> <<>>,
     documentTypeDistribution |-> <<>>,
     qualityDistribution |-> <<>>,
     suggestedRefinements |-> <<>>]

\* EmptyPage with the totalPages default of ultraSearch (`|| 1`)
EmptyPageOnePage(perPage) ==
    [documents |-> <<>>,
     totalCount |-> 0,
     page |-> 1,
     perPage |-> perPage,
     totalPages |-> 1,
     hasNextPage |-> FALSE,
     searchId |-> [t |-> "stamp", prefix |-> "error_", v |-> now],
     executionTimeMs |-> 0,
     searchAnalytics |-> <<>>,
     jurisdictionsCovered |-> <<>>,
     sourcesSearched |-> <<>>,
     documentTypeDistribution |-> <<>>,
     qualityDistribution |-> <<>>,
     suggestedRefinements |-> <<>>]

\* basicSearch's catch block: the explicitly empty page
EmptyPage(perPage) ==
    [documents |-> <<>>,
     totalCount |-> 0,
     page |-> 1,
     perPage |-> perPage,
     totalPages |-> 0,
     hasNextPage |-> FALSE,
     searchId |-> [t |-> "stamp", prefix |-> "error_", v |-> now],
     executionTimeMs |-> 0,
     searchAnalytics |-> <<>>,
     jurisdictionsCovered |-> <<>>,
     sourcesSearched |-> <<>>,
     documentTypeDistribution |-> <<>>,
     qualityDistribution |-> <<>>,
     suggestedRefinements |-> <<>>]

-----------------------------------------------------------------------------
(* UltraLegalSearchApp: the state of the component that owns the hook *)

DefaultTotalDocuments == 370000000

InitApp ==
    [searchResults |-> <<>>,
     totalDocuments |-> DefaultTotalDocuments,
     isSearching |-> FALSE,
     searchError |-> JsNull,
     currentPage |-> 1,
     resultsPerPage |-> DefaultPerPage]

\* handleUltraSearch from the return of `await performSearch(...)` to its end;
\* currentPage is the page of the render that created the handler, the one the search
\* was issued with
handleUltraSearchResume(a, currentPage, results) ==
    [a EXCEPT !.searchResults = results.documents,
              !.totalDocuments = results.totalCount,
              !.currentPage = IF results.totalPages # 0 /\ currentPage > results.totalPages
                              THEN 1 ELSE @,
              !.isSearching = FALSE]

-----------------------------------------------------------------------------
(* performSearch, one action per continuation *)

Pending(call) == call.phase \in {"fetch", "json"}

\* performSearch up to `await ultraApiService.ultraSearch(...)`, which runs ultraSearch
\* and makeRequest up to `await fetch(...)`.  searchTimeoutRef is never assigned, so the
\* clearTimeout at the top never runs.  addToSearchHistory, and through it performSearch,
\* closes over the searchMetrics of the render that created it.
PerformSearchStartBy(caller, searchFilters, page, perPage) ==
    LET id == Len(searches) + 1
        ultraSearchFilter == UltraSearchFilter(searchFilters)
    IN /\ isSearching' = TRUE
       /\ requestMetrics' = makeRequestStart(requestMetrics)
       /\ calls' = Append(calls, NewCall("primary", id, "/api/ultra-search", "POST",
                                         UltraRequestBody(ultraSearchFilter, page, perPage)))
       /\ searches' = Append(searches,
              [searchFilters |-> searchFilters, ultraSearchFilter |-> ultraSearchFilter,
               page |-> page, perPage |-> perPage, startTime |-> now,
               closureMetrics |-> searchMetrics, pc |-> "primary", ret |-> JsUndef,
               caller |-> caller])
PerformSearchStart(searchFilters, page, perPage) ==
    PerformSearchStartBy("hook", searchFilters, page, perPage)
PerformSearch(searchFilters, page, perPage) ==
    /\ PerformSearchStart(searchFilters, page, perPage)
    /\ UNCHANGED <<now, app, direct, searchResults, searchMetrics, searchSuggestions, recentSearches,
                   suggestionCache, suggestionTimeoutRef, timers, fetches,
                   localStorage, sugLog, histOp>>

\* ResumePerformSearch that shows the page only if no later search was issued
ResumePerformSearchLatestIssued(i, results, rm, cs) ==
    LET s == searches[i]
        executionTime == now - s.startTime
        queryText == Get(s.searchFilters, "queryText")
        updated == UpdatedSearches(recentSearches,
                                   SearchEntry(queryText.v, s.searchFilters, results))
    IN /\ requestMetrics' = rm
       /\ calls' = cs
       /\ searchMetrics' = updateSearchMetrics(searchMetrics, executionTime, TRUE)
       /\ IF s.page = 1 /\ Truthy(queryText)
          THEN /\ recentSearches' = updated
               /\ localStorage' = saveSearchData(updated, s.closureMetrics)
               /\ histOp' = [histOp EXCEPT !.op = "record", !.query = queryText.v]
          ELSE UNCHANGED <<recentSearches, localStorage, histOp>>
       /\ searchResults' = IF i = Len(searches) THEN JsObj(results) ELSE searchResults
       /\ isSearching' = FALSE
       /\ searches' = [searches EXCEPT ![i].pc = "done", ![i].ret = JsObj(results)]
       /\ app' = IF s.caller = "app"
                 THEN handleUltraSearchResume(app, s.page, results) ELSE app
       /\ UNCHANGED <<now, direct, searchSuggestions, suggestionCache, suggestionTimeoutRef,
                      timers, fetches, sugLog>>

\* ResumePerformSearch that records a history entry for every page
ResumePerformSearchAnyPage(i, results, rm, cs) ==
    LET s == searches[i]
        executionTime == now - s.startTime
        queryText == Get(s.searchFilters, "queryText")
        updated == UpdatedSearches(recentSearches,
                                   SearchEntry(queryText.v, s.searchFilters, results))
    IN /\ requestMetrics' = rm
       /\ calls' = cs
       /\ searchMetrics' = updateSearchMetrics(searchMetrics, executionTime, TRUE)
       /\ IF Truthy(queryText)
          THEN /\ recentSearches' = updated
               /\ localStorage' = saveSearchData(updated, s.closureMetrics)
               /\ histOp' = [histOp EXCEPT !.op = "record", !.query = queryText.v]
          ELSE UNCHANGED <<recentSearches, localStorage, histOp>>
       /\ searchResults' = JsObj(results)
       /\ isSearching' = FALSE
       /\ searches' = [searches EXCEPT ![i].pc = "done", ![i].ret = JsObj(results)]
       /\ app' = IF s.caller = "app"
                 THEN handleUltraSearchResume(app, s.page, results) ELSE app
       /\ UNCHANGED <<now, direct, searchSuggestions, suggestionCache, suggestionTimeoutRef,
                      timers, fetches, sugLog>>

\* ResumePerformSearch that records a history entry only for a page with results
ResumePerformSearchFound(i, results, rm, cs) ==
    LET s == searches[i]
        executionTime == now - s.startTime
        queryText == Get(s.searchFilters, "queryText")
        updated == UpdatedSearches(recentSearches,
                                   SearchEntry(queryText.v, s.searchFilters, results))
    IN /\ requestMetrics' = rm
       /\ calls' = cs
       /\ searchMetrics' = updateSearchMetrics(searchMetrics, executionTime, TRUE)
       /\ IF s.page = 1 /\ Truthy(queryText) /\ results.totalCount > 0
          THEN /\ recentSearches' = updated
               /\ localStorage' = saveSearchData(updated, s.closureMetrics)
               /\ histOp' = [histOp EXCEPT !.op = "record", !.query = queryText.v]
          ELSE UNCHANGED <<recentSearches, localStorage, histOp>>
       /\ searchResults' = JsObj(results)
       /\ isSearching' = FALSE
       /\ searches' = [searches EXCEPT ![i].pc = "done", ![i].ret = JsObj(results)]
       /\ app' = IF s.caller = "app"
                 THEN handleUltraSearchResume(app, s.page, results) ELSE app
       /\ UNCHANGED <<now, direct, searchSuggestions, suggestionCache, suggestionTimeoutRef,
                      timers, fetches, sugLog>>

\* performSearch from the return of ultraSearch to its end (lines 432-444 and the
\* finally block); rm and cs are the gateway state the call left behind.  ultraSearch
\* never rejects (its catch block returns basicSearch's page and basicSearch catches
\* everything), so performSearch's own catch block, which would record success = false
\* and rethrow, has no continuation here.
ResumePerformSearch(i, results, rm, cs) ==
    LET s == searches[i]
        executionTime == now - s.startTime
        queryText == Get(s.searchFilters, "queryText")
        updated == UpdatedSearches(recentSearches,
                                   SearchEntry(queryText.v, s.searchFilters, results))
    IN /\ requestMetrics' = rm
       /\ calls' = cs
       /\ searchMetrics' = updateSearchMetrics(searchMetrics, executionTime, TRUE)
       /\ IF s.page = 1 /\ Truthy(queryText)
          THEN /\ recentSearches' = updated
               /\ localStorage' = saveSearchData(updated, s.closureMetrics)
               /\ histOp' = [histOp EXCEPT !.op = "record", !.query = queryText.v]
          ELSE UNCHANGED <<recentSearches, localStorage, histOp>>
       /\ searchResults' = JsObj(results)
       /\ isSearching' = FALSE
       /\ searches' = [searches EXCEPT ![i].pc = "done", ![i].ret = JsObj(results)]
       /\ app' = IF s.caller = "app"
                 THEN handleUltraSearchResume(app, s.page, results) ELSE app
       /\ UNCHANGED <<now, direct, searchSuggestions, suggestionCache, suggestionTimeoutRef,
                      timers, fetches, sugLog>>

\* the primary call succeeds: makeRequest returns the body, ultraSearch maps it
PrimarySucceeds(c, response) ==
    /\ calls[c].kind = "primary"
    /\ calls[c].phase = "json"
    /\ ResumePerformSearch(calls[c].owner,
                           UltraPage(response, searches[calls[c].owner].perPage),
                           makeRequestReturn(requestMetrics, calls[c].responseTime),
                           Settle(c, "ok", response))

\* PrimaryFails with a catch block that tries the primary endpoint again
PrimaryFailsRetry(c, reason) ==
    LET i == calls[c].owner
        s == searches[i]
    IN /\ calls[c].kind = "primary"
       /\ CanFail(calls[c], reason)
       /\ requestMetrics' = makeRequestStart(makeRequestThrow(requestMetrics))
       /\ calls' = Append(Settle(c, "failed", JsUndef),
                          NewCall("primary", i, "/api/ultra-search", "POST",
                                  UltraRequestBody(s.ultraSearchFilter, s.page, s.perPage)))
       /\ UNCHANGED <<now, app, direct, searches, isSearching, searchResults, searchMetrics,
                      searchSuggestions, recentSearches, suggestionCache,
                      suggestionTimeoutRef, timers,
                      fetches, localStorage, sugLog, histOp>>

\* the primary call fails: makeRequest throws, ultraSearch's catch block calls
\* basicSearch, which runs makeRequest up to `await fetch(...)`
PrimaryFails(c, reason) ==
    LET i == calls[c].owner
        s == searches[i]
    IN /\ calls[c].kind = "primary"
       /\ CanFail(calls[c], reason)
       /\ requestMetrics' = makeRequestStart(makeRequestThrow(requestMetrics))
       /\ calls' = Append(Settle(c, "failed", JsUndef),
                          NewCall("fallback", i, "/api/search", "POST",
                                  BasicRequestBody(FallbackQuery(s.ultraSearchFilter),
                                                   s.page, s.perPage)))
       /\ searches' = [searches EXCEPT ![i].pc = "fallback"]
       /\ UNCHANGED <<now, app, direct, isSearching, searchResults, searchMetrics, searchSuggestions,
                      recentSearches, suggestionCache, suggestionTimeoutRef, timers, fetches,
                      localStorage, sugLog, histOp>>

\* the fallback call succeeds: basicSearch maps the body, ultraSearch returns it
FallbackSucceeds(c, response) ==
    LET s == searches[calls[c].owner]
    IN /\ calls[c].kind = "fallback"
       /\ calls[c].phase = "json"
       /\ ResumePerformSearch(calls[c].owner,
                              BasicPage(response, s.page, s.perPage),
                              makeRequestReturn(requestMetrics, calls[c].responseTime),
                              Settle(c, "ok", response))

\* the fallback call fails: basicSearch's catch block returns the empty page
FallbackFails(c, reason) ==
    /\ calls[c].kind = "fallback"
    /\ CanFail(calls[c], reason)
    /\ ResumePerformSearch(calls[c].owner,
                           EmptyPage(searches[calls[c].owner].perPage),
                           makeRequestThrow(requestMetrics),
                           Settle(c, "failed", JsUndef))

-----------------------------------------------------------------------------
(* Specifications *)

Init ==
    /\ now = 0
    /\ app = InitApp
    /\ direct = <<>>
    /\ requestMetrics = InitRequestMetrics
    /\ calls = <<>>
    /\ searches = <<>>
    /\ isSearching = FALSE
    /\ searchResults = JsArr(<<>>)
    /\ searchMetrics = InitSearchMetrics
    /\ searchSuggestions = <<>>
    /\ recentSearches = <<>>
    /\ suggestionCache = <<>>
    /\ suggestionTimeoutRef = 0
    /\ timers = {}
    /\ fetches = <<>>
    /\ localStorage = [history |-> JsNull, metrics |-> JsNull]
    /\ sugLog = InitSugLog
    /\ histOp = NoHistOp

\* searches, the gateway and the clock
Next ==
    \/ /\ Len(searches) < MaxSearches
       /\ \E inp \in SearchInputs : PerformSearch(inp[1], inp[2], inp[3])
    \/ Tick
    \/ \E c \in 1..Len(calls) : HeadersArrive(c)
    \/ \E c \in 1..Len(calls), r \in PrimaryBodies : PrimarySucceeds(c, r)
    \/ \E c \in 1..Len(calls), reason \in FailureReasons : PrimaryFails(c, reason)
    \/ \E c \in 1..Len(calls), r \in FallbackBodies : FallbackSucceeds(c, r)
    \/ \E c \in 1..Len(calls), reason \in FailureReasons : FallbackFails(c, reason)

Spec == Init /\ [][Next]_vars

-----------------------------------------------------------------------------
(* Claims about performSearch and its two calls *)

PrimaryEndpoint == "/api/ultra-search"
FallbackEndpoint == "/api/search"

\* the calls search i sent to an endpoint
CallsTo(i, endpoint) ==
    {c \in 1..Len(calls) : calls[c].owner = i /\ calls[c].endpoint = endpoint}
Failed(i, endpoint) == \E c \in CallsTo(i, endpoint) : calls[c].phase = "failed"
Succeeded(i, endpoint) == \E c \in CallsTo(i, endpoint) : calls[c].phase = "ok"

PageFields ==
    {"documents", "totalCount", "page", "perPage", "totalPages", "hasNextPage",
     "searchId", "executionTimeMs", "searchAnalytics", "jurisdictionsCovered",
     "sourcesSearched", "documentTypeDistribution", "qualityDistribution",
     "suggestedRefinements"}
WellFormedPage(p) ==
    /\ DOMAIN p = PageFields
    /\ p.documents \in Seq(Nat)
    /\ p.totalCount \in Nat
    /\ p.page \in Nat \ {0}
    /\ p.perPage \in Nat \ {0}
    /\ p.totalPages \in Nat
    /\ p.hasNextPage \in BOOLEAN
    /\ p.executionTimeMs \in Nat

\* C1: whatever the outcomes of the primary and the fallback call, the search
\* resolves with a well-formed result page; when both calls failed the page has no
\* documents, totalCount 0 and totalPages 0.
C1_ResolvesWellFormed ==
    \A i \in 1..Len(searches) :
        LET s == searches[i]
        IN /\ (Succeeded(i, PrimaryEndpoint) \/ Succeeded(i, FallbackEndpoint)
                   \/ Failed(i, FallbackEndpoint)) => s.pc = "done"
           /\ s.pc = "done" => s.ret.t = "object" /\ WellFormedPage(s.ret.v)
           /\ (Failed(i, PrimaryEndpoint) /\ Failed(i, FallbackEndpoint)) =>
                  /\ s.ret.v.documents = <<>>
                  /\ s.ret.v.totalCount = 0
                  /\ s.ret.v.totalPages = 0

C1_Witness ==
    \E i \in 1..Len(searches) :
        /\ Failed(i, PrimaryEndpoint) /\ Failed(i, FallbackEndpoint)
        /\ searches[i].pc = "done"
        /\ searches[i].ret.v.totalPages = 0

\* search i completes in this step, its fallback call settling as `phase`
CompletesByFallback(i, phase) ==
    /\ searches[i].pc = "fallback"
    /\ searches'[i].pc = "done"
    /\ \E c \in CallsTo(i, FallbackEndpoint) : calls'[c].phase = phase

\* C2: when the primary call fails and the fallback call succeeds, the search
\* returns the fallback's documents and total count, and the metrics record appended
\* for it has success = false.
C2_DegradedRecordedAsFailure ==
    [][\A i \in 1..Len(searches) :
           CompletesByFallback(i, "ok") =>
               LET c == CHOOSE c \in CallsTo(i, FallbackEndpoint) : TRUE
                   response == calls'[c].response
                   page == searches'[i].ret.v
                   record == searchMetrics'.searchHistory[Len(searchMetrics'.searchHistory)]
               IN /\ page.documents = ArrOr(response, "documents")
                  /\ page.totalCount = NumOr(response, "total_count", 0)
                  /\ record.success = FALSE]_vars

\* C3: when both calls fail, the metrics record appended has success = false,
\* totalSearches grows by 1, successfulSearches is unchanged, and the record's
\* execution time is the elapsed time of the primary attempt alone.
C3_TotalFailureRecord ==
    [][\A i \in 1..Len(searches) :
           CompletesByFallback(i, "failed") =>
               LET p == CHOOSE c \in CallsTo(i, PrimaryEndpoint) : TRUE
                   record == searchMetrics'.searchHistory[Len(searchMetrics'.searchHistory)]
               IN /\ record.success = FALSE
                  /\ searchMetrics'.totalSearches = searchMetrics.totalSearches + 1
                  /\ searchMetrics'.successfulSearches = searchMetrics.successfulSearches
                  /\ record.executionTime = calls[p].end - searches[i].startTime]_vars

\* C4: the fallback request body carries the query text of the search request, the
\* same page, the page size as limit, and nothing else (none of the filters).
C4_FallbackBody ==
    \A c \in 1..Len(calls) :
        calls[c].endpoint = FallbackEndpoint =>
            LET s == searches[calls[c].owner]
            IN calls[c].body = [query |-> Get(s.searchFilters, "queryText"),
                                page |-> JsNum(s.page),
                                limit |-> JsNum(s.perPage)]

\* C5: a search sends exactly one call to the primary endpoint, and one call to the
\* fallback endpoint if and only if the primary call failed: at most two calls.
C5_OnePrimaryOneFallback ==
    \A i \in 1..Len(searches) :
        /\ Cardinality(CallsTo(i, PrimaryEndpoint)) = 1
        /\ Cardinality(CallsTo(i, FallbackEndpoint)) =
               IF Failed(i, PrimaryEndpoint) THEN 1 ELSE 0
        /\ Cardinality({c \in 1..Len(calls) : calls[c].owner = i}) <= 2

C5_Witness ==
    \E i \in 1..Len(searches) :
        /\ searches[i].pc = "done"
        /\ Failed(i, PrimaryEndpoint)
        /\ Cardinality(CallsTo(i, FallbackEndpoint)) = 1

-----------------------------------------------------------------------------
(* getSuggestions: debounce, fetch, merge, cache *)

SuggestionsEndpoint == "/api/search-suggestions"

\* code points: 1..26 are a..z, 27 is the space
LegalTerms ==
    <<<<3, 15, 14, 19, 20, 9, 20, 21, 20, 9, 15, 14, 1, 12, 27, 12, 1, 23>>,
      <<3, 15, 14, 20, 18, 1, 3, 20, 27, 12, 1, 23>>,
      <<20, 15, 18, 20, 27, 12, 1, 23>>,
      <<3, 18, 9, 13, 9, 14, 1, 12, 27, 12, 1, 23>>,
      <<3, 15, 18, 16, 15, 18, 1, 20, 5, 27, 12, 1, 23>>,
      <<9, 14, 20, 5, 12, 12, 5, 3, 20, 21, 1, 12, 27, 16, 18, 15, 16, 5, 18, 20, 25>>,
      <<5, 13, 16, 12, 15, 25, 13, 5, 14, 20, 27, 12, 1, 23>>,
      <<5, 14, 22, 9, 18, 15, 14, 13, 5, 14, 20, 1, 12, 27, 12, 1, 23>>,
      <<20, 1, 24, 27, 12, 1, 23>>,
      <<9, 14, 20, 5, 18, 14, 1, 20, 9, 15, 14, 1, 12, 27, 12, 1, 23>>>>

\* getSearchSuggestions: the suggestions returned when the call succeeded
FetchedSuggestions(response) == ArrOr(response, "suggestions")

\* getSearchSuggestions' catch block: the legal terms that contain the query
TermSuggestions(query, limit) ==
    SliceTo(SelectSeq(LegalTerms,
                      LAMBDA term : Includes(ToLowerCase(term), ToLowerCase(query))),
            limit)

\* AllSuggestions that also takes recent queries the backend already suggested
AllSuggestionsNoDedup(suggestions, recent, query) ==
    LET matching == SelectSeq(recent,
                        LAMBDA e : Includes(ToLowerCase(e.query), ToLowerCase(query)))
        matchingRecent == SliceTo([i \in 1..Len(matching) |-> matching[i].query],
                                  HistoryMatchLimit)
    IN SliceTo(suggestions \o matchingRecent, SuggestionLimit)

\* the timer callback, lines 353-365
AllSuggestions(suggestions, recent, query) ==
    LET matching == SelectSeq(recent,
                        LAMBDA e : /\ Includes(ToLowerCase(e.query), ToLowerCase(query))
                                   /\ e.query \notin SeqRange(suggestions))
        matchingRecent == SliceTo([i \in 1..Len(matching) |-> matching[i].query],
                                  HistoryMatchLimit)
    IN SliceTo(suggestions \o matchingRecent, SuggestionLimit)

\* CacheSet that, for a key already there, removes its entry and adds it anew at the end
CacheSetReinsert(cache, key, val) ==
    Append(SelectSeq(cache, LAMBDA e : e.key # key), [key |-> key, val |-> val])

\* Map.prototype.has / get / set on the cache kept in insertion order
CacheKeys(cache) == {cache[i].key : i \in 1..Len(cache)}
CacheGet(cache, key) == (CHOOSE i \in 1..Len(cache) : cache[i].key = key)
CacheSet(cache, key, val) ==
    IF key \in CacheKeys(cache)
    THEN [i \in 1..Len(cache) |-> IF cache[i].key = key THEN [key |-> key, val |-> val]
                                  ELSE cache[i]]
    ELSE Append(cache, [key |-> key, val |-> val])

\* CachePut that trims only once the cache is two over its capacity
CachePutLate(prev, key, val) ==
    LET newCache == CacheSet(prev, key, val)
    IN IF Len(newCache) > CacheCap + 1 THEN Tail(newCache) ELSE newCache

\* CachePut that, over capacity, drops the entry just added instead of the earliest
CachePutDropNewest(prev, key, val) ==
    LET newCache == CacheSet(prev, key, val)
    IN IF Len(newCache) > CacheCap THEN SubSeq(newCache, 1, CacheCap) ELSE newCache

\* the updater passed to setSuggestionCache, lines 370-381
CachePut(prev, key, val) ==
    LET newCache == CacheSet(prev, key, val)
    IN IF Len(newCache) > CacheCap THEN Tail(newCache) ELSE newCache

Called(query) ==
    [calls |-> sugLog.calls + 1, fires |-> sugLog.fires, burst |-> sugLog.burst + 1,
     ended |-> sugLog.ended, query |-> query,
     cached |-> query \in CacheKeys(suggestionCache)]

\* getSuggestions that publishes the cached list and arms a timer to refresh it
GetSuggestionsRefresh(query) ==
    /\ sugLog' = Called(query)
    /\ IF Len(query) < MinQueryLen
       THEN /\ searchSuggestions' = <<>>
            /\ UNCHANGED <<suggestionTimeoutRef, timers>>
       ELSE /\ timers' = {t \in timers : t.id # suggestionTimeoutRef}
                             \cup {[id |-> suggestionTimeoutRef + 1, query |-> query,
                                    recentSearches |-> recentSearches,
                                    due |-> now + DebounceMs]}
            /\ suggestionTimeoutRef' = suggestionTimeoutRef + 1
            /\ IF query \in CacheKeys(suggestionCache)
               THEN searchSuggestions' =
                        suggestionCache[CacheGet(suggestionCache, query)].val
               ELSE UNCHANGED searchSuggestions
    /\ UNCHANGED <<now, app, direct, requestMetrics, calls, searches, isSearching, searchResults,
                   searchMetrics, recentSearches, suggestionCache, fetches, localStorage,
                   histOp>>

\* getSuggestions that leaves the previous timer armed
GetSuggestionsNoClear(query) ==
    /\ sugLog' = Called(query)
    /\ IF Len(query) < MinQueryLen
       THEN /\ searchSuggestions' = <<>>
            /\ UNCHANGED <<suggestionTimeoutRef, timers>>
       ELSE IF query \in CacheKeys(suggestionCache)
       THEN /\ searchSuggestions' = suggestionCache[CacheGet(suggestionCache, query)].val
            /\ UNCHANGED <<suggestionTimeoutRef, timers>>
       ELSE /\ timers' = timers \cup {[id |-> suggestionTimeoutRef + 1, query |-> query,
                                        recentSearches |-> recentSearches,
                                        due |-> now + DebounceMs]}
            /\ suggestionTimeoutRef' = suggestionTimeoutRef + 1
            /\ UNCHANGED searchSuggestions
    /\ UNCHANGED <<now, app, direct, requestMetrics, calls, searches, isSearching, searchResults,
                   searchMetrics, recentSearches, suggestionCache, fetches, localStorage,
                   histOp>>

\* getSuggestions, lines 331-349 and 387: the synchronous part, up to setTimeout.  The
\* callback closes over the query and over the recentSearches of the render.
GetSuggestionsStart(query) ==
    /\ sugLog' = Called(query)
    /\ IF Len(query) < MinQueryLen
       THEN /\ searchSuggestions' = <<>>
            /\ UNCHANGED <<suggestionTimeoutRef, timers>>
       ELSE IF query \in CacheKeys(suggestionCache)
       THEN /\ searchSuggestions' = suggestionCache[CacheGet(suggestionCache, query)].val
            /\ UNCHANGED <<suggestionTimeoutRef, timers>>
       ELSE /\ timers' = {t \in timers : t.id # suggestionTimeoutRef}
                             \cup {[id |-> suggestionTimeoutRef + 1, query |-> query,
                                    recentSearches |-> recentSearches,
                                    due |-> now + DebounceMs]}
            /\ suggestionTimeoutRef' = suggestionTimeoutRef + 1
            /\ UNCHANGED searchSuggestions
GetSuggestions(query) ==
    /\ GetSuggestionsStart(query)
    /\ UNCHANGED <<now, app, direct, requestMetrics, calls, searches, isSearching, searchResults,
                   searchMetrics, recentSearches, suggestionCache, fetches, localStorage,
                   histOp>>

\* a debounce timer fires: the callback runs getSearchSuggestions and makeRequest up to
\* `await fetch(...)`
FireTimer(t) ==
    /\ t \in timers
    /\ now >= t.due
    /\ timers' = timers \ {t}
    /\ requestMetrics' = makeRequestStart(requestMetrics)
    /\ calls' = Append(calls, NewCall("suggest", Len(fetches) + 1, SuggestionsEndpoint, "GET",
                                      [query |-> JsStr(t.query),
                                       limit |-> JsNum(SuggestionFetchLimit)]))
    /\ fetches' = Append(fetches, [query |-> t.query, recentSearches |-> t.recentSearches,
                                   pc |-> "fetch"])
    /\ sugLog' = [sugLog EXCEPT !.fires = @ + 1, !.burst = 0, !.ended = sugLog.burst]
    /\ UNCHANGED <<now, app, direct, searches, isSearching, searchResults, searchMetrics,
                   searchSuggestions, recentSearches, suggestionCache,
                   suggestionTimeoutRef, localStorage, histOp>>

\* the timer callback from the return of getSearchSuggestions to its end (lines
\* 353-381).  getSearchSuggestions catches every failure, so the callback's own catch
\* block (setSearchSuggestions([])) has no continuation here.
ResumeTimerCallback(f, suggestions, rm, cs) ==
    LET allSuggestions == AllSuggestions(suggestions, fetches[f].recentSearches,
                                         fetches[f].query)
    IN /\ requestMetrics' = rm
       /\ calls' = cs
       /\ searchSuggestions' = allSuggestions
       /\ suggestionCache' = CachePut(suggestionCache, fetches[f].query, allSuggestions)
       /\ fetches' = [fetches EXCEPT ![f].pc = "done"]
       /\ UNCHANGED <<now, app, direct, searches, isSearching, searchResults, searchMetrics,
                      recentSearches, suggestionTimeoutRef, timers, localStorage, sugLog, histOp>>

\* the suggestion call succeeds
SuggestSucceeds(c, response) ==
    /\ calls[c].kind = "suggest"
    /\ calls[c].phase = "json"
    /\ ResumeTimerCallback(calls[c].owner, FetchedSuggestions(response),
                           makeRequestReturn(requestMetrics, calls[c].responseTime),
                           Settle(c, "ok", response))

\* the suggestion call fails: getSearchSuggestions' catch block answers with legal terms
SuggestFails(c, reason) ==
    /\ calls[c].kind = "suggest"
    /\ CanFail(calls[c], reason)
    /\ ResumeTimerCallback(calls[c].owner,
                           TermSuggestions(fetches[calls[c].owner].query,
                                           SuggestionFetchLimit),
                           makeRequestThrow(requestMetrics),
                           Settle(c, "failed", JsUndef))

(* Inputs of the suggestion stream *)

\* "", "c", "co", "con"
SugQueries == {<<>>, <<3>>, <<3, 15>>, <<3, 15, 14>>}

SuggestBodies ==
    {[suggestions |-> <<<<3, 15, 14, 20, 18, 1, 3, 20>>, <<3, 15, 21, 18, 20>>>>],
     [detail |-> 0]}

\* the state after n prefixes, none of them among SugQueries, were each fetched in turn
\* and answered at once with a body without suggestions
PrefillKey(i) == <<28, i>>
PrefilledCache(n) == [i \in 1..n |-> [key |-> PrefillKey(i), val |-> <<>>]]
PrefilledRequestMetrics(n) ==
    LET window == [i \in 1..(IF n > ResponseWindowCap THEN ResponseWindowCap ELSE n) |-> 0]
    IN [totalRequests |-> n, successfulRequests |-> n, failedRequests |-> 0,
        averageResponseTime |-> Mean(window), responseTimeHistory |-> window]
PrefillSizes == {0, CacheCap - 1, CacheCap}

InitSug ==
    /\ now = 0
    /\ app = InitApp
    /\ direct = <<>>
    /\ \E n \in PrefillSizes :
           /\ requestMetrics = PrefilledRequestMetrics(n)
           /\ suggestionCache = PrefilledCache(n)
    /\ calls = <<>>
    /\ searches = <<>>
    /\ isSearching = FALSE
    /\ searchResults = JsArr(<<>>)
    /\ searchMetrics = InitSearchMetrics
    /\ searchSuggestions = <<>>
    /\ recentSearches = <<>>
    /\ suggestionTimeoutRef = 0
    /\ timers = {}
    /\ fetches = <<>>
    /\ localStorage = [history |-> JsNull, metrics |-> JsNull]
    /\ sugLog = InitSugLog
    /\ histOp = NoHistOp

\* the suggestion stream, the gateway and the clock
NextSug ==
    \/ /\ sugLog.calls < MaxSugCalls
       /\ \E q \in SugQueries : GetSuggestions(q)
    \/ /\ sugLog.fires < MaxFetches
       /\ \E t \in timers : FireTimer(t)
    \/ Tick
    \/ \E c \in 1..Len(calls) : HeadersArrive(c)
    \/ \E c \in 1..Len(calls), r \in SuggestBodies : SuggestSucceeds(c, r)
    \/ \E c \in 1..Len(calls), reason \in FailureReasons : SuggestFails(c, reason)

SpecSug == InitSug /\ [][NextSug]_vars

-----------------------------------------------------------------------------
(* Claims about the suggestion stream *)

\* this step is a getSuggestions call / the firing of a debounce timer
IsSugCall == sugLog'.calls = sugLog.calls + 1
IsFire == sugLog'.fires = sugLog.fires + 1

\* the query of the suggestion request sent last
LastSent(cs) == cs[Len(cs)].body.query.v

\* the last getSuggestions call was for a prefix that arms a timer
LastArms == Len(sugLog.query) >= MinQueryLen /\ ~sugLog.cached

\* C6 as stated: after a burst of several getSuggestions calls, exactly one request
\* is to be sent, for the last prefix of the burst: one timer is armed, for that prefix.
C6_BurstSendsLast ==
    sugLog.burst >= 2 => \E t \in timers : timers = {t} /\ t.query = sugLog.query

\* C6 as amended: when the last prefix of a burst has 2 or more characters and is not
\* a cache key, exactly one timer is armed after the burst, for that prefix, and its
\* firing sends exactly one request, for that prefix.
C6_BurstSendsLastArmed ==
    [][/\ (sugLog'.burst >= 2 /\ LastArms') =>
              \E t \in timers' : timers' = {t} /\ t.query = sugLog'.query
       /\ (IsFire /\ sugLog.burst >= 2 /\ LastArms) =>
              /\ Len(calls') = Len(calls) + 1
              /\ calls'[Len(calls')].endpoint = SuggestionsEndpoint
              /\ LastSent(calls') = sugLog.query]_vars

C6_Witness ==
    /\ sugLog.ended >= 2
    /\ sugLog.burst = 0
    /\ LastArms
    /\ Len(calls) = 1
    /\ LastSent(calls) = sugLog.query

\* C7: every getSuggestions call made while a debounce timer is armed disarms that
\* timer, whatever the new prefix, so the request a firing sends is always for the
\* prefix of the most recent call.
C7_EveryCallDisarms ==
    [][/\ IsSugCall => \A t \in timers : t \notin timers'
       /\ IsFire => LastSent(calls') = sugLog.query]_vars

\* C10: the suggestion cache never holds more than 100 entries.
C10_CacheBounded == Len(suggestionCache) <= CacheCap

\* the cache is full and its earliest entry has been evicted
C10_Witness ==
    /\ Len(suggestionCache) = CacheCap
    /\ suggestionCache[1].key # PrefillKey(1)
    /\ suggestionCache[CacheCap].key \in SugQueries

\* this step ends the timer callback of fetch f, whose prefix is not a cache key
InsertsNewKey(f) ==
    /\ fetches[f].pc # "done"
    /\ fetches'[f].pc = "done"
    /\ fetches[f].query \notin CacheKeys(suggestionCache)

\* C11: when a new key is inserted into a cache that holds 100 entries, the key
\* inserted earliest is the one evicted and every other key stays, in its order, with
\* the new key last; a getSuggestions call answered from the cache leaves the cache,
\* and with it the key evicted next, as it was.
C11_EvictsEarliestInserted ==
    [][/\ \A f \in 1..Len(fetches) :
              (/\ Len(suggestionCache) = CacheCap
               /\ InsertsNewKey(f)) =>
                  /\ Len(suggestionCache') = CacheCap
                  /\ SubSeq(suggestionCache', 1, CacheCap - 1) = Tail(suggestionCache)
                  /\ suggestionCache'[CacheCap].key = fetches[f].query
       /\ (IsSugCall /\ sugLog'.cached) => suggestionCache' = suggestionCache]_vars

\* two insertions into the full cache evicted the two earliest keys, and the last call
\* was answered from the cache for the key that is not the newest
C11_Witness ==
    /\ Len(suggestionCache) = CacheCap
    /\ suggestionCache[1].key \notin {PrefillKey(1), PrefillKey(2)}
    /\ sugLog.cached
    /\ sugLog.query = suggestionCache[CacheCap - 1].key
    /\ searchSuggestions = suggestionCache[CacheCap - 1].val

\* C19: when the backend suggestion request fails, the list published for its prefix
\* is empty, and the timer callback ends without an error.
C19_FailurePublishesEmpty ==
    [][\A c \in 1..Len(calls) :
           (/\ calls[c].kind = "suggest"
            /\ Pending(calls[c])
            /\ calls'[c].phase = "failed") =>
               /\ searchSuggestions' = <<>>
               /\ fetches'[calls[c].owner].pc = "done"]_vars

\* C23: a getSuggestions call for a prefix that is a cache key publishes the cached
\* list, sends no request and arms no timer; a call for a prefix of 2 or more
\* characters that is not a key arms a timer due 300 ms later and sends no request;
\* a suggestion request is sent only when a timer for its prefix fires, 300 ms or more
\* after it was armed.
C23_HitOrDebounce ==
    [][/\ (IsSugCall /\ sugLog'.cached) =>
              /\ searchSuggestions' =
                     suggestionCache[CacheGet(suggestionCache, sugLog'.query)].val
              /\ calls' = calls
              /\ timers' = timers
       /\ (IsSugCall /\ Len(sugLog'.query) >= MinQueryLen /\ ~sugLog'.cached) =>
              /\ \E t \in timers' \ timers :
                     /\ t.query = sugLog'.query
                     /\ t.due = now + DebounceMs
              /\ calls' = calls
       /\ Len(calls') > Len(calls) =>
              \E t \in timers \ timers' :
                  /\ t.query = LastSent(calls')
                  /\ now >= t.due]_vars

\* a prefix was fetched and cached, and a later call for it was answered from the
\* cache with nothing armed and nothing more sent
C23_Witness ==
    /\ sugLog.cached
    /\ sugLog.query \in CacheKeys(suggestionCache)
    /\ searchSuggestions = suggestionCache[CacheGet(suggestionCache, sugLog.query)].val
    /\ searchSuggestions # <<>>
    /\ timers = {}
    /\ Len(calls) = 1
    /\ ~Pending(calls[1])

\* C27: at most one debounce timer is armed at any time; a getSuggestions call that
\* arms a timer leaves that timer as the only one armed.
C27_OneTimerArmed ==
    [][/\ Cardinality(timers') <= 1
       /\ (IsSugCall /\ timers' # timers) =>
              \E t \in timers' :
                  /\ timers' = {t}
                  /\ t.id = suggestionTimeoutRef'
                  /\ t \notin timers]_vars

\* a timer was armed while another was armed, and only the new one is left
C27_Witness ==
    /\ sugLog.burst >= 2
    /\ suggestionTimeoutRef >= 2
    /\ \E t \in timers : timers = {t} /\ t.id = suggestionTimeoutRef /\ t.due > now
    /\ calls = <<>>

\* no debounce timer is armed and no timer callback awaits its request
SuggestionsQuiet ==
    /\ timers = {}
    /\ \A f \in 1..Len(fetches) : fetches[f].pc = "done"

\* C31: once no timer is armed and no suggestion request is in flight, the published
\* list is the one of the prefix of the most recent getSuggestions call: the empty list
\* if that prefix has fewer than 2 characters, else the list the cache holds for it.
C31_QuietShowsLatest ==
    (SuggestionsQuiet /\ sugLog.calls > 0) =>
        IF Len(sugLog.query) < MinQueryLen
        THEN searchSuggestions = <<>>
        ELSE /\ sugLog.query \in CacheKeys(suggestionCache)
             /\ searchSuggestions =
                    suggestionCache[CacheGet(suggestionCache, sugLog.query)].val

(* Fetches for one prefix in flight together, with a fetch for another in between *)

MaxReplaceCalls == 3    \* getSuggestions calls in one behaviour
MaxReplaceFetches == 3  \* timer firings in one behaviour
MaxReplaceSteps == 3    \* clock steps in one behaviour

\* "co", "con"
ReplaceQueries == {<<3, 15>>, <<3, 15, 14>>}

\* the state after CacheCap prefixes, none of them among ReplaceQueries, were each
\* fetched in turn and answered at once with a body without suggestions
InitReplace ==
    /\ now = 0
    /\ app = InitApp
    /\ direct = <<>>
    /\ requestMetrics = PrefilledRequestMetrics(CacheCap)
    /\ suggestionCache = PrefilledCache(CacheCap)
    /\ calls = <<>>
    /\ searches = <<>>
    /\ isSearching = FALSE
    /\ searchResults = JsArr(<<>>)
    /\ searchMetrics = InitSearchMetrics
    /\ searchSuggestions = <<>>
    /\ recentSearches = <<>>
    /\ suggestionTimeoutRef = 0
    /\ timers = {}
    /\ fetches = <<>>
    /\ localStorage = [history |-> JsNull, metrics |-> JsNull]
    /\ sugLog = InitSugLog
    /\ histOp = NoHistOp

NextReplace ==
    \/ /\ sugLog.calls < MaxReplaceCalls
       /\ \E q \in ReplaceQueries : GetSuggestions(q)
    \/ /\ sugLog.fires < MaxReplaceFetches
       /\ \E t \in timers : FireTimer(t)
    \/ TickTo(MaxReplaceSteps)
    \/ \E c \in 1..Len(calls) : HeadersArrive(c)
    \/ \E c \in 1..Len(calls), r \in SuggestBodies : SuggestSucceeds(c, r)
    \/ \E c \in 1..Len(calls), reason \in FailureReasons : SuggestFails(c, reason)

SpecReplace == InitReplace /\ [][NextReplace]_vars

\* this step ends fetch f, for a prefix that is a cache key already
ReplacesKey(f) ==
    /\ fetches[f].pc # "done"
    /\ fetches'[f].pc = "done"
    /\ fetches[f].query \in CacheKeys(suggestionCache)

\* C39: inserting a prefix that is a cache key already puts the new list under it and
\* leaves every other entry, the number of entries (100 included) and the order of the
\* keys as they were.
C39_ReplaceKeepsPosition ==
    [][\A f \in 1..Len(fetches) :
           ReplacesKey(f) =>
               /\ Len(suggestionCache') = Len(suggestionCache)
               /\ \A i \in 1..Len(suggestionCache) :
                      /\ suggestionCache'[i].key = suggestionCache[i].key
                      /\ suggestionCache'[i].val =
                             IF suggestionCache[i].key = fetches[f].query
                             THEN searchSuggestions'
                             ELSE suggestionCache[i].val]_vars

\* two fetches for "co" were in flight together; the first put "co" into the full
\* cache, a fetch for "con" put "con" after it, and the second then replaced the list
\* of "co", which is still the key before "con" in a cache of 100 entries
C39_Witness ==
    /\ Len(fetches) = 3
    /\ \A f \in 1..3 : fetches[f].pc = "done"
    /\ fetches[1].query = <<3, 15>>
    /\ fetches[2].query = <<3, 15>>
    /\ fetches[3].query = <<3, 15, 14>>
    /\ calls[2].start <= calls[1].end
    /\ calls[1].phase = "failed"
    /\ calls[2].phase = "ok"
    /\ Len(suggestionCache) = CacheCap
    /\ suggestionCache[CacheCap - 1].key = <<3, 15>>
    /\ suggestionCache[CacheCap - 1].val = FetchedSuggestions(calls[2].response)
    /\ suggestionCache[CacheCap - 1].val # <<>>
    /\ suggestionCache[CacheCap - 1].val # TermSuggestions(<<3, 15>>, SuggestionFetchLimit)
    /\ suggestionCache[CacheCap].key = <<3, 15, 14>>
    /\ suggestionCache[1].key = PrefillKey(3)

\* C35: a suggestion request that fails leaves the suggestion cache as it was, so its
\* prefix, if it was no cache key, is none afterwards and the next call for it arms a
\* timer again.
C35_FailureNotCached ==
    [][\A c \in 1..Len(calls) :
           (/\ calls[c].kind = "suggest"
            /\ Pending(calls[c])
            /\ calls'[c].phase = "failed") =>
               /\ suggestionCache' = suggestionCache
               /\ fetches[calls[c].owner].query \notin CacheKeys(suggestionCache) =>
                      fetches[calls[c].owner].query \notin CacheKeys(suggestionCache')]_vars

-----------------------------------------------------------------------------
(* The history store: record, clear, restart *)

\* addToSearchHistory called through the hook's API (it is among the returned members);
\* it saves the searchMetrics of the render that created it
AddToSearchHistory(searchQuery, filters, results) ==
    LET updated == UpdatedSearches(recentSearches, SearchEntry(searchQuery, filters, results))
    IN /\ recentSearches' = updated
       /\ localStorage' = saveSearchData(updated, searchMetrics)
       /\ histOp' = [histOp EXCEPT !.op = "record", !.query = searchQuery]
       /\ UNCHANGED <<now, app, direct, requestMetrics, calls, searches, isSearching, searchResults,
                      searchMetrics, searchSuggestions, suggestionCache,
                      suggestionTimeoutRef, timers, fetches, sugLog>>

\* clearSearchHistory that empties the state and leaves the two slots as they are
ClearSearchHistoryInMemory ==
    /\ recentSearches' = <<>>
    /\ searchMetrics' = [searchMetrics EXCEPT !.searchHistory = <<>>]
    /\ histOp' = [histOp EXCEPT !.op = "clear", !.query = <<>>,
                                !.issued = Len(searches)]
    /\ UNCHANGED <<now, app, direct, requestMetrics, calls, searches, isSearching, searchResults,
                   searchSuggestions, suggestionCache, suggestionTimeoutRef, timers,
                   fetches, sugLog, localStorage>>

\* ClearSearchHistory that also resets the counters of the metrics
ClearSearchHistoryResetMetrics ==
    /\ recentSearches' = <<>>
    /\ searchMetrics' = InitSearchMetrics
    /\ localStorage' = [history |-> JsNull, metrics |-> JsNull]
    /\ histOp' = [histOp EXCEPT !.op = "clear", !.query = <<>>,
                                !.issued = Len(searches)]
    /\ UNCHANGED <<now, app, direct, requestMetrics, calls, searches, isSearching, searchResults,
                   searchSuggestions, suggestionCache, suggestionTimeoutRef, timers,
                   fetches, sugLog>>

\* clearSearchHistory, lines 458-471
ClearSearchHistory ==
    /\ recentSearches' = <<>>
    /\ searchMetrics' = [searchMetrics EXCEPT !.searchHistory = <<>>]
    /\ localStorage' = [history |-> JsNull, metrics |-> JsNull]
    /\ histOp' = [histOp EXCEPT !.op = "clear", !.query = <<>>,
                                !.issued = Len(searches)]
    /\ UNCHANGED <<now, app, direct, requestMetrics, calls, searches, isSearching, searchResults,
                   searchSuggestions, suggestionCache, suggestionTimeoutRef, timers,
                   fetches, sugLog>>

\* LoadedMetrics that takes the window from the slot and leaves the counters at 0
LoadedMetricsWindowOnly(slot) ==
    IF slot.t = "null" THEN InitSearchMetrics
    ELSE [InitSearchMetrics EXCEPT !.searchHistory = slot.v.searchHistory]

\* LoadedSearches that keeps one entry less
LoadedSearchesShort(slot) ==
    IF slot.t = "null" THEN <<>> ELSE SliceTo(slot.v, HistoryCap - 1)

\* the load effect, lines 255-271: what the two slots put into the fresh state
LoadedSearches(slot) == IF slot.t = "null" THEN <<>> ELSE SliceTo(slot.v, HistoryCap)
LoadedMetrics(slot) ==
    IF slot.t = "null" THEN InitSearchMetrics ELSE Spread(InitSearchMetrics, slot.v)

\* Restart that loads the two slots only when both are there
RestartBothOrNone ==
    /\ requestMetrics' = InitRequestMetrics
    /\ calls' = <<>>
    /\ searches' = <<>>
    /\ isSearching' = FALSE
    /\ searchResults' = JsArr(<<>>)
    /\ searchSuggestions' = <<>>
    /\ suggestionCache' = <<>>
    /\ suggestionTimeoutRef' = 0
    /\ timers' = {}
    /\ fetches' = <<>>
    /\ sugLog' = InitSugLog
    /\ IF localStorage.history.t # "null" /\ localStorage.metrics.t # "null"
       THEN /\ recentSearches' = LoadedSearches(localStorage.history)
            /\ searchMetrics' = LoadedMetrics(localStorage.metrics)
       ELSE /\ recentSearches' = <<>>
            /\ searchMetrics' = InitSearchMetrics
    /\ histOp' = [histOp EXCEPT !.op = "restart", !.query = <<>>, !.issued = 0]
    /\ app' = InitApp
    /\ direct' = <<>>
    /\ UNCHANGED <<now, localStorage>>

\* the page is reloaded: the module singleton and the hook state are created anew, the
\* cleanup effect clears the timers, calls in flight are abandoned, the load effect runs
Restart ==
    /\ requestMetrics' = InitRequestMetrics
    /\ calls' = <<>>
    /\ searches' = <<>>
    /\ isSearching' = FALSE
    /\ searchResults' = JsArr(<<>>)
    /\ searchSuggestions' = <<>>
    /\ suggestionCache' = <<>>
    /\ suggestionTimeoutRef' = 0
    /\ timers' = {}
    /\ fetches' = <<>>
    /\ sugLog' = InitSugLog
    /\ recentSearches' = LoadedSearches(localStorage.history)
    /\ searchMetrics' = LoadedMetrics(localStorage.metrics)
    /\ histOp' = [histOp EXCEPT !.op = "restart", !.query = <<>>, !.issued = 0]
    /\ app' = InitApp
    /\ direct' = <<>>
    /\ UNCHANGED <<now, localStorage>>

(* Inputs of the history store *)

HistKey(i) == <<29, i>>
\* two queries that history lists of every length hold, two that none holds at first
HistQueries == {HistKey(1), HistKey(HistoryCap - 1), <<1, 2>>, <<2, 1>>}
\* the filters recorded with a query; one of them has a property that is undefined
HistFilters(q) ==
    IF q = <<2, 1>> THEN [queryText |-> JsStr(q), dateRange |-> JsUndef]
    ELSE PlainFilters(q)
HistResults == {UltraPage(r, DefaultPerPage) : r \in PrimaryBodies}

\* the state after addToSearchHistory was called for n queries in turn
PrefilledHistory(n) ==
    [i \in 1..n |-> SearchEntry(HistKey(n + 1 - i), PlainFilters(HistKey(n + 1 - i)),
                                UltraPage([detail |-> 0], DefaultPerPage))]
HistorySizes == {0, HistoryCap - 1, HistoryCap}

InitHist ==
    /\ now = 0
    /\ app = InitApp
    /\ direct = <<>>
    /\ requestMetrics = InitRequestMetrics
    /\ calls = <<>>
    /\ searches = <<>>
    /\ isSearching = FALSE
    /\ searchResults = JsArr(<<>>)
    /\ searchMetrics = InitSearchMetrics
    /\ searchSuggestions = <<>>
    /\ suggestionCache = <<>>
    /\ suggestionTimeoutRef = 0
    /\ timers = {}
    /\ fetches = <<>>
    /\ sugLog = InitSugLog
    /\ \E n \in HistorySizes :
           /\ recentSearches = PrefilledHistory(n)
           /\ localStorage = IF n = 0 THEN [history |-> JsNull, metrics |-> JsNull]
                             ELSE saveSearchData(PrefilledHistory(n), InitSearchMetrics)
           /\ histOp = IF n = 0 THEN NoHistOp
                      ELSE [NoHistOp EXCEPT !.op = "record", !.query = HistKey(n)]

NextHist ==
    \/ \E q \in HistQueries, r \in HistResults : AddToSearchHistory(q, HistFilters(q), r)
    \/ ClearSearchHistory
    \/ Restart

SpecHist == InitHist /\ [][NextHist]_vars

Queries(searchList) == [i \in 1..Len(searchList) |-> searchList[i].query]

\* C8: the recent-search list never holds more than 10 entries, and no two of its
\* entries have the same query text.
C8_HistoryBoundedDistinct ==
    /\ Len(recentSearches) <= HistoryCap
    /\ \A i, j \in 1..Len(recentSearches) :
           recentSearches[i].query = recentSearches[j].query => i = j

\* a record at full length evicted the oldest entry
C8_Witness ==
    /\ histOp.op = "record"
    /\ Len(recentSearches) = HistoryCap
    /\ recentSearches[1].query = <<1, 2>>
    /\ \A i \in 1..Len(recentSearches) : recentSearches[i].query # HistKey(1)

\* C9: recording a query that is already in the history puts the new entry at index
\* 0, removes the old entry of that query, keeps the other entries in their relative
\* order and does not increase the length.
C9_RerecordMovesToFront ==
    [][(histOp'.op = "record" /\ histOp'.query \in SeqRange(Queries(recentSearches))) =>
           /\ Len(recentSearches') = Len(recentSearches)
           /\ recentSearches'[1].query = histOp'.query
           /\ Tail(Queries(recentSearches')) =
                  SelectSeq(Queries(recentSearches), LAMBDA q : q # histOp'.query)]_vars

\* the last operation recorded again a query that was not at the front
C9_Witness ==
    /\ histOp.op = "record"
    /\ histOp.query = HistKey(1)
    /\ Len(recentSearches) = HistoryCap
    /\ recentSearches[1].query = HistKey(1)
    /\ recentSearches[2].query = HistKey(HistoryCap)

\* the list a history slot holds (none when the slot is absent)
SlotList(slot) == IF slot.t = "null" THEN <<>> ELSE slot.v

\* C17: after a record or a clear the history slot holds the in-memory list (as
\* JSON.stringify writes it), and a restart restores the list as it was: the same
\* queries in the same order.
C17_SlotHoldsList ==
    [][/\ histOp'.op \in {"record", "clear"} =>
              SlotList(localStorage'.history) = StringifyHistory(recentSearches')
       /\ histOp'.op = "restart" =>
              /\ recentSearches' = StringifyHistory(recentSearches)
              /\ Queries(recentSearches') = Queries(recentSearches)]_vars

\* a full history whose newest entry was recorded in this run was restored by a restart
C17_Witness ==
    /\ histOp.op = "restart"
    /\ Len(recentSearches) = HistoryCap
    /\ recentSearches[1].query = <<2, 1>>
    /\ recentSearches[2].query = <<1, 2>>
    /\ SlotList(localStorage.history) = recentSearches

\* C15: after clearSearchHistory the in-memory history list is empty and the persisted
\* history slot is empty, and a restart that follows starts with no history entry.
C15_ClearEmptiesBoth ==
    [][/\ histOp'.op = "clear" =>
              /\ recentSearches' = <<>>
              /\ localStorage'.history = JsNull
       /\ (histOp.op = "clear" /\ histOp'.op = "restart") =>
              /\ recentSearches' = <<>>
              /\ localStorage'.history = JsNull]_vars

\* a full history was cleared
C15_Witness ==
    /\ histOp.op = "clear"
    /\ recentSearches = <<>>
    /\ localStorage.history = JsNull
    /\ searchMetrics = InitSearchMetrics

-----------------------------------------------------------------------------
(* The metrics aggregator: record, clear, restart *)

\* updateSearchMetrics called through the hook's API (it is among the returned members)
UpdateSearchMetrics(executionTime, success) ==
    /\ searchMetrics' = updateSearchMetrics(searchMetrics, executionTime, success)
    /\ histOp' = [histOp EXCEPT !.op = "metrics", !.query = <<>>, !.count = @ + 1]
    /\ UNCHANGED <<now, app, direct, requestMetrics, calls, searches, isSearching, searchResults,
                   searchSuggestions, recentSearches, suggestionCache,
                   suggestionTimeoutRef, timers, fetches, localStorage, sugLog>>

(* Inputs of the metrics aggregator *)

MaxMetricOps == 2       \* direct metrics records in a run

\* execution time (ms) and success flag
MetricsInputs == {<<0, TRUE>>, <<100, TRUE>>, <<200, TRUE>>, <<200, FALSE>>}
PrefillTime == 100

\* the state after n calls of updateSearchMetrics(100, true)
PrefilledMetrics(n) ==
    LET window == [i \in 1..(IF n > MetricsWindowCap THEN MetricsWindowCap ELSE n) |->
                       [timestamp |-> now, executionTime |-> PrefillTime, success |-> TRUE]]
    IN [totalSearches |-> n, successfulSearches |-> n,
        averageResponseTime |-> IF n = 0 THEN InitSearchMetrics.averageResponseTime
                                ELSE [num |-> PrefillTime * Len(window), den |-> Len(window)],
        lastSearchTime |-> IF n = 0 THEN JsNull ELSE JsNum(PrefillTime),
        searchHistory |-> window]
MetricsSizes == {0, MetricsWindowCap - 1, MetricsWindowCap}

InitMetrics ==
    /\ now = 0
    /\ app = InitApp
    /\ direct = <<>>
    /\ requestMetrics = InitRequestMetrics
    /\ calls = <<>>
    /\ searches = <<>>
    /\ isSearching = FALSE
    /\ searchResults = JsArr(<<>>)
    /\ \E n \in MetricsSizes : searchMetrics = PrefilledMetrics(n)
    /\ searchSuggestions = <<>>
    /\ recentSearches = <<>>
    /\ suggestionCache = <<>>
    /\ suggestionTimeoutRef = 0
    /\ timers = {}
    /\ fetches = <<>>
    /\ localStorage = [history |-> JsNull, metrics |-> JsNull]
    /\ sugLog = InitSugLog
    /\ histOp = NoHistOp

NextMetrics ==
    \/ /\ histOp.count < MaxMetricOps
       /\ \E inp \in MetricsInputs : UpdateSearchMetrics(inp[1], inp[2])
    \/ AddToSearchHistory(HistKey(1), PlainFilters(HistKey(1)),
                          UltraPage([detail |-> 0], DefaultPerPage))
    \/ ClearSearchHistory
    \/ Restart

SpecMetrics == InitMetrics /\ [][NextMetrics]_vars

\* the execution times of the records of a window that are flagged successful, and of
\* those that updateSearchMetrics averages
SuccessfulTimes(window) ==
    LET successful == SelectSeq(window, LAMBDA h : h.success)
    IN [i \in 1..Len(successful) |-> successful[i].executionTime]
PositiveSuccessfulTimes(window) == SelectSeq(SuccessfulTimes(window), LAMBDA t : t > 0)

IsRecord == searchMetrics'.totalSearches = searchMetrics.totalSearches + 1

\* C12 as stated: in every state, averageResponseTime is the arithmetic mean of the
\* execution times of the records flagged successful among the last 50 recorded
\* (0 when there is none).
C12_AverageIsWindowMean ==
    SameMean(searchMetrics.averageResponseTime,
             Mean(SuccessfulTimes(searchMetrics.searchHistory)))

\* C12 as amended: whenever the window holds a record flagged successful with a
\* positive execution time, averageResponseTime is the arithmetic mean of the execution
\* times of those records; a record operation or a clear that leaves no such record in
\* the window leaves averageResponseTime at the value it had.
C12_AverageOverPositiveSuccessful ==
    [][/\ PositiveSuccessfulTimes(searchMetrics'.searchHistory) # <<>> =>
              /\ Len(searchMetrics'.searchHistory) <= MetricsWindowCap
              /\ SameMean(searchMetrics'.averageResponseTime,
                          Mean(PositiveSuccessfulTimes(searchMetrics'.searchHistory)))
       /\ (/\ IsRecord \/ histOp'.op = "clear"
           /\ PositiveSuccessfulTimes(searchMetrics'.searchHistory) = <<>>) =>
              searchMetrics'.averageResponseTime = searchMetrics.averageResponseTime]_vars

\* the window is full and has slid, it holds a failed record, and the average is that
\* of its successful records, which is not the execution time of the oldest ones
C12_Witness ==
    /\ searchMetrics.totalSearches > MetricsWindowCap
    /\ Len(searchMetrics.searchHistory) = MetricsWindowCap
    /\ \E i \in 1..MetricsWindowCap : ~searchMetrics.searchHistory[i].success
    /\ Len(PositiveSuccessfulTimes(searchMetrics.searchHistory)) = MetricsWindowCap - 1
    /\ ~SameMean(searchMetrics.averageResponseTime, [num |-> PrefillTime, den |-> 1])

\* this step is a direct metrics record
IsMetricsRecord == histOp'.count = histOp.count + 1

\* C26: a metrics record operation adds 1 to totalSearches, adds 1 to
\* successfulSearches exactly when its success flag is true, sets lastSearchTime to its
\* execution time and appends its record to the window, which holds at most 50 records
\* and drops the oldest first.
C26_RecordCounts ==
    [][IsMetricsRecord =>
           LET window == searchMetrics'.searchHistory
               record == window[Len(window)]
           IN /\ searchMetrics'.totalSearches = searchMetrics.totalSearches + 1
              /\ searchMetrics'.successfulSearches =
                     searchMetrics.successfulSearches + (IF record.success THEN 1 ELSE 0)
              /\ searchMetrics'.lastSearchTime = JsNum(record.executionTime)
              /\ <<record.executionTime, record.success>> \in MetricsInputs
              /\ Len(window) <= MetricsWindowCap
              /\ SubSeq(window, 1, Len(window) - 1) =
                     IF Len(searchMetrics.searchHistory) < MetricsWindowCap
                     THEN searchMetrics.searchHistory
                     ELSE Tail(searchMetrics.searchHistory)]_vars

\* the window is full, it has slid twice, and the last record is a failed one that
\* was counted as an attempt and not as a success
C26_Witness ==
    /\ histOp.op = "metrics"
    /\ Len(searchMetrics.searchHistory) = MetricsWindowCap
    /\ searchMetrics.totalSearches = MetricsWindowCap + 2
    /\ searchMetrics.successfulSearches = MetricsWindowCap + 1
    /\ ~searchMetrics.searchHistory[MetricsWindowCap].success
    /\ searchMetrics.lastSearchTime = JsNum(200)

(* Startup over the slots an earlier session left, either of which may be missing *)

StoredHistory == {JsNull, JsArr(StringifyHistory(PrefilledHistory(HistoryCap)))}
StoredMetrics == {JsNull, JsObj(PrefilledMetrics(MetricsWindowCap))}

\* the state once the load effect has run on mount
InitLoad ==
    /\ now = 0
    /\ app = InitApp
    /\ direct = <<>>
    /\ requestMetrics = InitRequestMetrics
    /\ calls = <<>>
    /\ searches = <<>>
    /\ isSearching = FALSE
    /\ searchResults = JsArr(<<>>)
    /\ searchSuggestions = <<>>
    /\ suggestionCache = <<>>
    /\ suggestionTimeoutRef = 0
    /\ timers = {}
    /\ fetches = <<>>
    /\ sugLog = InitSugLog
    /\ histOp = NoHistOp
    /\ \E h \in StoredHistory, m \in StoredMetrics :
           /\ localStorage = [history |-> h, metrics |-> m]
           /\ recentSearches = LoadedSearches(h)
           /\ searchMetrics = LoadedMetrics(m)

SpecLoad == InitLoad /\ [][NextMetrics]_vars

\* C28: at a restart, a history slot that is absent gives no history entry and a
\* metrics slot that is absent gives the default metrics (zero counters, empty
\* window); a slot that is present is loaded whether or not the other one is.
C28_AbsentSlotIsDefault ==
    [][histOp'.op = "restart" =>
           /\ localStorage.history.t = "null" => recentSearches' = <<>>
           /\ localStorage.metrics.t = "null" =>
                  /\ searchMetrics'.totalSearches = 0
                  /\ searchMetrics'.successfulSearches = 0
                  /\ searchMetrics'.searchHistory = <<>>
                  /\ searchMetrics' = InitSearchMetrics
           /\ localStorage.history.t # "null" =>
                  recentSearches' = SliceTo(localStorage.history.v, HistoryCap)
           /\ localStorage.metrics.t # "null" =>
                  \A k \in DOMAIN localStorage.metrics.v :
                      searchMetrics'[k] = localStorage.metrics.v[k]]_vars

\* a restart found the metrics slot alone and loaded it, after metrics records that
\* were not saved
C28_Witness ==
    /\ histOp.op = "restart"
    /\ histOp.count > 0
    /\ localStorage.history.t = "null"
    /\ localStorage.metrics.t = "object"
    /\ recentSearches = <<>>
    /\ searchMetrics = PrefilledMetrics(MetricsWindowCap)

(* Clearing the history in a session that has fetched suggestions and searched *)

\* the suggestions the backend gave for "co"
CoSuggestions == <<<<3, 15, 14, 20, 18, 1, 3, 20>>, <<3, 15, 21, 18, 20>>>>

\* the state after CacheCap - 1 prefixes and then "co" were fetched and answered, the
\* last with CoSuggestions, and after n metrics records
InitFrame ==
    /\ now = 0
    /\ app = InitApp
    /\ direct = <<>>
    /\ requestMetrics = PrefilledRequestMetrics(CacheCap)
    /\ calls = <<>>
    /\ searches = <<>>
    /\ isSearching = FALSE
    /\ searchResults = JsArr(<<>>)
    /\ \E n \in MetricsSizes : searchMetrics = PrefilledMetrics(n)
    /\ searchSuggestions = CoSuggestions
    /\ recentSearches = <<>>
    /\ suggestionCache = Append(PrefilledCache(CacheCap - 1),
                                [key |-> <<3, 15>>, val |-> CoSuggestions])
    /\ suggestionTimeoutRef = 0
    /\ timers = {}
    /\ fetches = <<>>
    /\ localStorage = [history |-> JsNull, metrics |-> JsNull]
    /\ sugLog = InitSugLog
    /\ histOp = NoHistOp

SpecFrame == InitFrame /\ [][NextMetrics]_vars

\* this step is a clearSearchHistory that follows another operation
IsClear == histOp'.op = "clear" /\ histOp.op # "clear"

\* C37: clearSearchHistory leaves the counters of the metrics, the last search time,
\* the average, the suggestion cache, the published suggestions and the gateway's
\* counters as they were; it empties the history list and the metrics window and
\* erases the two slots, and changes nothing else.
C37_ClearFrame ==
    [][IsClear =>
           /\ searchMetrics'.totalSearches = searchMetrics.totalSearches
           /\ searchMetrics'.successfulSearches = searchMetrics.successfulSearches
           /\ searchMetrics'.lastSearchTime = searchMetrics.lastSearchTime
           /\ searchMetrics'.averageResponseTime = searchMetrics.averageResponseTime
           /\ suggestionCache' = suggestionCache
           /\ searchSuggestions' = searchSuggestions
           /\ requestMetrics' = requestMetrics
           /\ recentSearches' = <<>>
           /\ searchMetrics'.searchHistory = <<>>
           /\ localStorage' = [history |-> JsNull, metrics |-> JsNull]
           /\ UNCHANGED <<now, app, direct, calls, searches, isSearching, searchResults,
                          suggestionTimeoutRef, timers, fetches, sugLog>>]_vars

\* the history was cleared after metrics records were made: the counters, the
\* average, the full cache, the published list and the gateway's counters are there,
\* the window and the slots are empty
C37_Witness ==
    /\ histOp.op = "clear"
    /\ histOp.count > 0
    /\ searchMetrics.totalSearches > MetricsWindowCap
    /\ searchMetrics.successfulSearches > 0
    /\ searchMetrics.averageResponseTime.num > 0
    /\ searchMetrics.searchHistory = <<>>
    /\ recentSearches = <<>>
    /\ localStorage = [history |-> JsNull, metrics |-> JsNull]
    /\ Len(suggestionCache) = CacheCap
    /\ searchSuggestions = CoSuggestions
    /\ requestMetrics.totalRequests = CacheCap

-----------------------------------------------------------------------------
(* The entry points of a search: performSearch and searchWithSuggestions *)

ShortQueryLen == 3      \* `query.length < 3`: suggestions are asked for
MinSearchLen == 2       \* `query.length >= 2`: the search is performed
Space == 27

\* searchWithSuggestions, lines 486-498, up to the first await that suspends it:
\* getSuggestions has no suspension point of its own, so performSearch starts in the
\* same task.  An empty string is falsy.
SearchWithSuggestions(query, filters) ==
    /\ IF Len(query) = 0 \/ Len(query) < ShortQueryLen
       THEN GetSuggestionsStart(query)
       ELSE UNCHANGED <<sugLog, searchSuggestions, suggestionTimeoutRef, timers>>
    /\ IF Len(query) # 0 /\ Len(query) >= MinSearchLen
       THEN PerformSearchStart(Spread(filters, [queryText |-> JsStr(query)]),
                               1, DefaultPerPage)
       ELSE UNCHANGED <<isSearching, requestMetrics, calls, searches>>
    /\ UNCHANGED <<now, app, direct, searchResults, searchMetrics, recentSearches, suggestionCache,
                   fetches, localStorage, histOp>>

\* "", "c", two spaces, "co", "con"
EntryQueries == {<<>>, <<3>>, <<Space, Space>>, <<3, 15>>, <<3, 15, 14>>}
\* the default `filters = {}`
NoFilters == [k \in {} |-> JsUndef]

\* the two entry points and the gateway (no clock: no call runs into the time bound)
NextEntry ==
    \/ /\ Len(searches) < MaxSearches
       /\ \E inp \in SearchInputs : PerformSearch(inp[1], inp[2], inp[3])
    \/ \E q \in EntryQueries :
           /\ Len(q) < ShortQueryLen => sugLog.calls < MaxSugCalls
           /\ Len(q) >= MinSearchLen => Len(searches) < MaxSearches
           /\ SearchWithSuggestions(q, NoFilters)
    \/ \E c \in 1..Len(calls) : HeadersArrive(c)
    \/ \E c \in 1..Len(calls), r \in PrimaryBodies : PrimarySucceeds(c, r)
    \/ \E c \in 1..Len(calls), reason \in FailureReasons : PrimaryFails(c, reason)
    \/ \E c \in 1..Len(calls), r \in FallbackBodies : FallbackSucceeds(c, r)
    \/ \E c \in 1..Len(calls), reason \in FailureReasons : FallbackFails(c, reason)

SpecEntry == Init /\ [][NextEntry]_vars

IsBlank(q) == \A i \in 1..Len(q) : q[i] = Space

\* C13: no search call (to the primary or the fallback endpoint) is sent for a search
\* whose query text is empty, blank or shorter than 2 characters, whether the search
\* came through performSearch or through searchWithSuggestions.
C13_NoCallForShortQuery ==
    \A c \in 1..Len(calls) :
        calls[c].kind \in {"primary", "fallback"} =>
            LET queryText == Get(searches[calls[c].owner].searchFilters, "queryText")
            IN /\ queryText.t = "string"
               /\ Len(queryText.v) >= MinSearchLen
               /\ ~IsBlank(queryText.v)

-----------------------------------------------------------------------------
(* Searches in flight together *)

MaxConcurrent == 2      \* searches issued in a run

\* two searches that differ in query and page size, so that their pages differ
ConcInputs ==
    {<<PlainFilters(<<1, 2>>), 1, DefaultPerPage>>, <<PlainFilters(<<2, 1>>), 1, 20>>}

\* searches and the gateway (no clock: no call runs into the time bound)
NextConc ==
    \/ /\ Len(searches) < MaxConcurrent
       /\ \E inp \in ConcInputs : PerformSearch(inp[1], inp[2], inp[3])
    \/ \E c \in 1..Len(calls) : HeadersArrive(c)
    \/ \E c \in 1..Len(calls), r \in PrimaryBodies : PrimarySucceeds(c, r)
    \/ \E c \in 1..Len(calls), reason \in FailureReasons : PrimaryFails(c, reason)
    \/ \E c \in 1..Len(calls), r \in FallbackBodies : FallbackSucceeds(c, r)
    \/ \E c \in 1..Len(calls), reason \in FailureReasons : FallbackFails(c, reason)

SpecConc == Init /\ [][NextConc]_vars

\* this step ends search i
Completes(i) == searches[i].pc # "done" /\ searches'[i].pc = "done"

\* C14: a search issued while others are pending sends its own call and leaves the
\* pending searches and their calls as they were; each search that completes puts its
\* own page into searchResults, and nothing else changes searchResults, so the page
\* shown is that of the search that completed last.
C14_LastCompletedShown ==
    [][/\ Len(searches') = Len(searches) + 1 =>
              /\ Len(calls') = Len(calls) + 1
              /\ SubSeq(calls', 1, Len(calls)) = calls
              /\ calls'[Len(calls')].owner = Len(searches')
              /\ Pending(calls'[Len(calls')])
              /\ SubSeq(searches', 1, Len(searches)) = searches
       /\ \A i \in 1..Len(searches) : Completes(i) => searchResults' = searches'[i].ret
       /\ searchResults' # searchResults => \E i \in 1..Len(searches) : Completes(i)]_vars

\* two searches were in flight together, both completed, and the page shown is that of
\* the one issued first, which differs from the page of the one issued last
C14_Witness ==
    /\ Len(searches) >= 2
    /\ searches[1].pc = "done"
    /\ searches[2].pc = "done"
    /\ calls[2].kind = "primary"
    /\ calls[2].owner = 2
    /\ searchResults = searches[1].ret
    /\ searchResults # searches[2].ret

(* Searches in flight when the history is cleared *)

MaxClearSearches == 2   \* searches issued in a run in which the history may be cleared

\* searches, the gateway and clearSearchHistory (no clock)
NextClear ==
    \/ /\ Len(searches) < MaxClearSearches
       /\ \E inp \in ConcInputs : PerformSearch(inp[1], inp[2], inp[3])
    \/ ClearSearchHistory
    \/ \E c \in 1..Len(calls) : HeadersArrive(c)
    \/ \E c \in 1..Len(calls), r \in PrimaryBodies : PrimarySucceeds(c, r)
    \/ \E c \in 1..Len(calls), reason \in FailureReasons : PrimaryFails(c, reason)
    \/ \E c \in 1..Len(calls), r \in FallbackBodies : FallbackSucceeds(c, r)
    \/ \E c \in 1..Len(calls), reason \in FailureReasons : FallbackFails(c, reason)

SpecClear == Init /\ [][NextClear]_vars

\* C34: a search issued before the last clearSearchHistory leaves the history list and
\* the history slot as they are when it completes; once cleared, they change only when
\* a search issued after the clear completes.
C34_ClearedUntilLaterSearch ==
    [][/\ \A i \in 1..Len(searches) :
              (Completes(i) /\ i <= histOp.issued) =>
                  /\ recentSearches' = recentSearches
                  /\ localStorage'.history = localStorage.history
       /\ (histOp.op = "clear" /\ \/ recentSearches' # <<>>
                                  \/ localStorage'.history # JsNull) =>
              \E i \in 1..Len(searches) : Completes(i) /\ i > histOp.issued]_vars

\* search i was issued and has not completed
InFlight(i) == searches[i].pc # "done"

\* C33: isSearching is true whenever at least one performSearch call is in flight and
\* false whenever none is, for any number of overlapping calls.
C33_SearchingIffInFlight ==
    isSearching <=> \E i \in 1..Len(searches) : InFlight(i)

-----------------------------------------------------------------------------
(* Claims about what a search leaves in the two slots *)

\* C16: when a search attempt ends, the metrics slot holds the metrics as that attempt
\* updated them, so that a restart would restore them.
C16_MetricsPersistedAfterAttempt ==
    [][\A i \in 1..Len(searches) :
           Completes(i) =>
               /\ localStorage'.metrics = JsObj(searchMetrics')
               /\ LoadedMetrics(localStorage'.metrics) = searchMetrics']_vars

-----------------------------------------------------------------------------
(* Claims about the wire filter *)

\* a value that is neither undefined, nor null, nor an empty array or object
Present(x) ==
    /\ x.t \notin {"undefined", "null"}
    /\ x.t = "array" => x.v # <<>>
    /\ x.t = "object" => DOMAIN x.v # {}

\* every field of x, at every level, is present
RECURSIVE NoEmptyField(_)
NoEmptyField(x) ==
    CASE x.t = "object" -> \A k \in DOMAIN x.v : Present(x.v[k]) /\ NoEmptyField(x.v[k])
      [] x.t = "array" -> \A i \in 1..Len(x.v) : NoEmptyField(x.v[i])
      [] OTHER -> TRUE

\* C18: the body of every call to the primary endpoint, which is the wire filter with
\* the page and the page size, has no field at any level that is undefined, null or
\* an empty collection.
C18_NoEmptyFieldOnWire ==
    \A c \in 1..Len(calls) :
        calls[c].endpoint = PrimaryEndpoint => NoEmptyField(JsObj(calls[c].body))

-----------------------------------------------------------------------------
(* Claims about the time bound of the gateway *)

\* C20: no gateway call is pending (headers or body still to come) once more than the
\* 30 s bound has passed since it was sent.
C20_NoCallPendingBeyondBound ==
    \A c \in 1..Len(calls) : Pending(calls[c]) => now - calls[c].start <= apiTimeout

-----------------------------------------------------------------------------
(* Claims about the gateway's counters *)

\* this step ends call c with a failure / with a body
CallFails(c) == Pending(calls[c]) /\ calls'[c].phase = "failed"
CallReturns(c) == Pending(calls[c]) /\ calls'[c].phase = "ok"

\* C21: a gateway call that ends in a failure (network, status, timeout) hands no value
\* to its caller, adds exactly 1 to failedRequests and leaves successfulRequests, the
\* response-time window and averageResponseTime as they were.
C21_FailureCountedOnce ==
    [][\A c \in 1..Len(calls) :
           CallFails(c) =>
               /\ calls'[c].response = JsUndef
               /\ requestMetrics'.failedRequests = requestMetrics.failedRequests + 1
               /\ requestMetrics'.successfulRequests = requestMetrics.successfulRequests
               /\ requestMetrics'.responseTimeHistory = requestMetrics.responseTimeHistory
               /\ requestMetrics'.averageResponseTime =
                      requestMetrics.averageResponseTime]_vars

\* the primary call was cancelled at the time bound and the fallback call was sent
C21_Witness ==
    \E c \in 1..Len(calls) :
        /\ calls[c].phase = "failed"
        /\ calls[c].end - calls[c].start >= apiTimeout
        /\ requestMetrics.failedRequests = 1
        /\ requestMetrics.totalRequests = 2

\* C22: every call sent adds 1 to totalRequests; every call that succeeds appends its
\* latency to the response-time window, which holds at most 100 samples and drops the
\* oldest first; after every update averageResponseTime is the mean of the window.
C22_WindowAndMean ==
    [][/\ Len(calls') = Len(calls) + 1 =>
              requestMetrics'.totalRequests = requestMetrics.totalRequests + 1
       /\ \A c \in 1..Len(calls) :
              CallReturns(c) =>
                  /\ requestMetrics'.successfulRequests =
                         requestMetrics.successfulRequests + 1
                  /\ requestMetrics'.responseTimeHistory =
                         SliceLast(Append(requestMetrics.responseTimeHistory,
                                          calls[c].responseTime), ResponseWindowCap)
                  /\ SameMean(requestMetrics'.averageResponseTime,
                              Mean(requestMetrics'.responseTimeHistory))
       /\ Len(requestMetrics'.responseTimeHistory) <= ResponseWindowCap]_vars

\* the window is full, its oldest sample was dropped and its newest is not 0
C22_Witness ==
    /\ requestMetrics.successfulRequests > ResponseWindowCap
    /\ Len(requestMetrics.responseTimeHistory) = ResponseWindowCap
    /\ requestMetrics.responseTimeHistory[ResponseWindowCap] > 0
    /\ SameMean(requestMetrics.averageResponseTime,
                [num |-> requestMetrics.responseTimeHistory[ResponseWindowCap],
                 den |-> ResponseWindowCap])

-----------------------------------------------------------------------------
(* The suggestion stream over a history that holds matching queries *)

\* "contract" (which the backend suggests too), "Con", "tort", "cow", "cone", "cod"
MergeRecent ==
    <<<<3, 15, 14, 20, 18, 1, 3, 20>>, <<UpperBase + 3, 15, 14>>, <<20, 15, 18, 20>>,
      <<3, 15, 23>>, <<3, 15, 14, 5>>, <<3, 15, 4>>>>
\* the state after addToSearchHistory was called for these queries, last one first
MergeHistory ==
    [i \in 1..Len(MergeRecent) |->
        SearchEntry(MergeRecent[i], PlainFilters(MergeRecent[i]),
                    UltraPage([detail |-> 0], DefaultPerPage))]
\* "co", "con"
MergeQueries == {<<3, 15>>, <<3, 15, 14>>}
\* six suggestions, two suggestions, none
MergeBodies ==
    {[suggestions |-> <<<<3, 15, 14, 20, 18, 1, 3, 20>>, <<3, 15, 21, 18, 20>>,
                        <<3, 15, 4, 5>>, <<3, 15, 16, 25>>, <<3, 15, 19, 20>>,
                        <<3, 15, 14, 19, 21, 12>>>>],
     [suggestions |-> <<<<3, 15, 14, 20, 18, 1, 3, 20>>, <<3, 15, 21, 18, 20>>>>],
     [detail |-> 0]}

InitMerge ==
    /\ now = 0
    /\ app = InitApp
    /\ direct = <<>>
    /\ requestMetrics = InitRequestMetrics
    /\ calls = <<>>
    /\ searches = <<>>
    /\ isSearching = FALSE
    /\ searchResults = JsArr(<<>>)
    /\ searchMetrics = InitSearchMetrics
    /\ searchSuggestions = <<>>
    /\ recentSearches = MergeHistory
    /\ suggestionCache = <<>>
    /\ suggestionTimeoutRef = 0
    /\ timers = {}
    /\ fetches = <<>>
    /\ localStorage = saveSearchData(MergeHistory, InitSearchMetrics)
    /\ sugLog = InitSugLog
    /\ histOp = [NoHistOp EXCEPT !.op = "record", !.query = MergeRecent[1]]

NextMerge ==
    \/ /\ sugLog.calls < MaxSugCalls
       /\ \E q \in MergeQueries : GetSuggestions(q)
    \/ /\ sugLog.fires < MaxFetches
       /\ \E t \in timers : FireTimer(t)
    \/ Tick
    \/ \E c \in 1..Len(calls) : HeadersArrive(c)
    \/ \E c \in 1..Len(calls), r \in MergeBodies : SuggestSucceeds(c, r)
    \/ \E c \in 1..Len(calls), reason \in FailureReasons : SuggestFails(c, reason)

SpecMerge == InitMerge /\ [][NextMerge]_vars

Min(a, b) == IF a < b THEN a ELSE b

\* C24: when the backend answers the request of a fired timer, the list published is
\* the list stored in the cache under the prefix; it has at most 8 entries, starts
\* with the backend suggestions in their order, and goes on with recent-history
\* queries, in history order, that contain the prefix (whatever the case) and are not
\* among the backend suggestions: the first 3 of them, or as many as fit in 8.
C24_MergedList ==
    [][\A c \in 1..Len(calls) :
           (calls[c].kind = "suggest" /\ CallReturns(c)) =>
               LET query == fetches[calls[c].owner].query
                   response == calls'[c].response
                   backend == IF "suggestions" \in DOMAIN response
                              THEN response.suggestions ELSE <<>>
                   published == searchSuggestions'
                   n == Min(Len(backend), SuggestionLimit)
                   rest == SubSeq(published, n + 1, Len(published))
                   eligible == SelectSeq(Queries(recentSearches),
                                   LAMBDA q : /\ Includes(ToLowerCase(q), ToLowerCase(query))
                                              /\ q \notin SeqRange(backend))
               IN /\ query \in CacheKeys(suggestionCache')
                  /\ suggestionCache'[CacheGet(suggestionCache', query)].val = published
                  /\ Len(published) <= SuggestionLimit
                  /\ SubSeq(published, 1, n) = SubSeq(backend, 1, n)
                  /\ Len(rest) = Min(Min(HistoryMatchLimit, Len(eligible)),
                                     SuggestionLimit - n)
                  /\ rest = SubSeq(eligible, 1, Len(rest))]_vars

\* six backend suggestions and two recent queries were published and cached, the
\* third matching recent query being cut off
C24_Witness ==
    \E i \in 1..Len(suggestionCache) :
        /\ suggestionCache[i].val = searchSuggestions
        /\ Len(searchSuggestions) = SuggestionLimit
        /\ searchSuggestions[1] = MergeRecent[1]
        /\ searchSuggestions[SuggestionLimit - 1] = MergeRecent[2]
        /\ searchSuggestions[SuggestionLimit] = MergeRecent[4]

-----------------------------------------------------------------------------
(* Claims about when a search records a history entry *)

\* C25: a search that ends for a page other than 1, or with an empty query text,
\* leaves the history list and the history slot as they were; the list changes only
\* when a page-1 search with a non-empty query text ends.
C25_OnlyFirstPageRecorded ==
    [][/\ \A i \in 1..Len(searches) :
              (/\ Completes(i)
               /\ \/ searches[i].page # 1
                  \/ Get(searches[i].searchFilters, "queryText") = JsStr(<<>>)) =>
                  /\ recentSearches' = recentSearches
                  /\ localStorage'.history = localStorage.history
       /\ recentSearches' # recentSearches =>
              \E i \in 1..Len(searches) :
                  /\ Completes(i)
                  /\ searches[i].page = 1
                  /\ Get(searches[i].searchFilters, "queryText") # JsStr(<<>>)
                  /\ recentSearches'[1].query =
                         Get(searches[i].searchFilters, "queryText").v]_vars

\* a search for page 2 ended with a page and nothing was recorded
C25_Witness ==
    /\ Len(searches) = 1
    /\ searches[1].pc = "done"
    /\ searches[1].page = 2
    /\ Get(searches[1].searchFilters, "queryText") # JsStr(<<>>)
    /\ searchResults = searches[1].ret
    /\ recentSearches = <<>>
    /\ localStorage.history = JsNull

\* C36: a search for page 1 with a non-empty query text that completes, with the page
\* of the primary endpoint, of the fallback endpoint or the empty page, leaves an entry
\* for its query at index 0 of the history, the only one for that query, whose
\* resultCount is the totalCount of the page returned.
C36_EveryFirstPageRecorded ==
    [][\A i \in 1..Len(searches) :
           (/\ Completes(i)
            /\ searches[i].page = 1
            /\ Get(searches[i].searchFilters, "queryText") # JsStr(<<>>)) =>
               LET queryText == Get(searches[i].searchFilters, "queryText").v
               IN /\ Len(recentSearches') >= 1
                  /\ recentSearches'[1].query = queryText
                  /\ recentSearches'[1].resultCount = searches'[i].ret.v.totalCount
                  /\ \A n \in 2..Len(recentSearches') :
                         recentSearches'[n].query # queryText
                  /\ SlotList(localStorage'.history) = StringifyHistory(recentSearches')]_vars

\* both calls of a page-1 search failed and the empty page was recorded with a
\* resultCount of 0
C36_Witness ==
    /\ Len(searches) = 1
    /\ searches[1].pc = "done"
    /\ searches[1].page = 1
    /\ Failed(1, PrimaryEndpoint)
    /\ Failed(1, FallbackEndpoint)
    /\ searches[1].ret.v.totalCount = 0
    /\ Len(recentSearches) = 1
    /\ recentSearches[1].query = Get(searches[1].searchFilters, "queryText").v
    /\ recentSearches[1].resultCount = 0

-----------------------------------------------------------------------------
(* UltraLegalSearchApp: searching and paging *)

MaxAppSearches == 1     \* handleUltraSearch calls in one behaviour

\* queries the search bar hands over (it trims and drops blank ones)
AppQueries == {<<1, 2>>, <<2, 1>>}
AppPages == {1, 2, 3}

\* handleUltraSearch up to `await performSearch(...)`: activeFilters is never changed
\* here, additionalFilters is {}, the page and the page size are those of the state
HandleUltraSearch(searchQuery) ==
    /\ app' = [app EXCEPT !.isSearching = TRUE, !.searchError = JsNull]
    /\ PerformSearchStartBy("app", ActiveFilters(searchQuery),
                            app.currentPage, app.resultsPerPage)
    /\ UNCHANGED <<now, direct, searchResults, searchMetrics, searchSuggestions,
                   recentSearches, suggestionCache, suggestionTimeoutRef, timers,
                   fetches, localStorage, sugLog, histOp>>

\* SearchResults: Math.ceil(totalCount / resultsPerPage), the last page it offers
LastPage == CeilDiv(app.totalDocuments, app.resultsPerPage)

\* handlePageChange, called from a page button of SearchResults
HandlePageChange(newPage) ==
    /\ newPage <= LastPage
    /\ newPage # app.currentPage
    /\ app' = [app EXCEPT !.currentPage = newPage]
    /\ UNCHANGED <<now, requestMetrics, calls, searches, isSearching, searchResults,
                   searchMetrics, searchSuggestions, recentSearches, suggestionCache,
                   suggestionTimeoutRef, timers, fetches, localStorage, sugLog, histOp,
                   direct>>

\* the component, the hook and the gateway (no clock: no call runs into the time bound)
NextApp ==
    \/ /\ Len(searches) < MaxAppSearches
       /\ \E q \in AppQueries : HandleUltraSearch(q)
    \/ \E p \in AppPages : HandlePageChange(p)
    \/ \E c \in 1..Len(calls) : HeadersArrive(c)
    \/ \E c \in 1..Len(calls), r \in PrimaryBodies : PrimarySucceeds(c, r)
    \/ \E c \in 1..Len(calls), reason \in FailureReasons : PrimaryFails(c, reason)
    \/ \E c \in 1..Len(calls), r \in FallbackBodies : FallbackSucceeds(c, r)
    \/ \E c \in 1..Len(calls), reason \in FailureReasons : FallbackFails(c, reason)

SpecApp == Init /\ [][NextApp]_vars

\* the page changes while no search is in flight: a page button was used
PageChanged ==
    /\ app'.currentPage # app.currentPage
    /\ \A i \in 1..Len(searches) : searches[i].pc = "done"

\* C29: once a query has been searched, a page change sends a search for that query and
\* the new page to the primary endpoint.
C29_PageChangeSendsSearch ==
    [][(Len(searches) > 0 /\ PageChanged) =>
           /\ Len(searches') = Len(searches) + 1
           /\ Len(calls') = Len(calls) + 1
           /\ LET s == searches'[Len(searches')]
                  c == calls'[Len(calls')]
              IN /\ s.page = app'.currentPage
                 /\ Get(s.searchFilters, "queryText") =
                        Get(searches[Len(searches)].searchFilters, "queryText")
                 /\ c.kind = "primary"
                 /\ c.phase = "fetch"
                 /\ Get(c.body, "page") = JsNum(app'.currentPage)]_vars

-----------------------------------------------------------------------------
(* basicSearch called on the service itself, not from ultraSearch's catch block *)

MaxDirect == 1          \* direct basicSearch calls in one behaviour

DirectInputs ==
    {<<JsStr(<<1, 2>>), 1, DefaultPerPage>>, <<JsStr(<<2, 1>>), 2, 20>>,
     <<JsStr(<<>>), 1, 20>>}

\* basicSearch up to `await this.makeRequest('/search', ...)`, which runs makeRequest
\* up to `await fetch(...)`
BasicSearch(query, page, perPage) ==
    /\ requestMetrics' = makeRequestStart(requestMetrics)
    /\ calls' = Append(calls, NewCall("basic", Len(direct) + 1, "/api/search", "POST",
                                      BasicRequestBody(query, page, perPage)))
    /\ direct' = Append(direct, [query |-> query, page |-> page, perPage |-> perPage,
                                 pc |-> "pending", ret |-> JsUndef])
    /\ UNCHANGED <<now, app, searches, isSearching, searchResults, searchMetrics,
                   searchSuggestions, recentSearches, suggestionCache,
                   suggestionTimeoutRef, timers, fetches, localStorage, sugLog, histOp>>

\* the call succeeds: basicSearch maps the body and returns the page
BasicSucceeds(c, response) ==
    LET d == direct[calls[c].owner]
    IN /\ calls[c].kind = "basic"
       /\ calls[c].phase = "json"
       /\ requestMetrics' = makeRequestReturn(requestMetrics, calls[c].responseTime)
       /\ calls' = Settle(c, "ok", response)
       /\ direct' = [direct EXCEPT ![calls[c].owner].pc = "returned",
                                   ![calls[c].owner].ret =
                                       JsObj(BasicPage(response, d.page, d.perPage))]
       /\ UNCHANGED <<now, app, searches, isSearching, searchResults, searchMetrics,
                      searchSuggestions, recentSearches, suggestionCache,
                      suggestionTimeoutRef, timers, fetches, localStorage, sugLog, histOp>>

\* BasicFails with a catch block that throws the error on to the caller
BasicFailsRethrow(c, reason) ==
    /\ calls[c].kind = "basic"
    /\ CanFail(calls[c], reason)
    /\ requestMetrics' = makeRequestThrow(requestMetrics)
    /\ calls' = Settle(c, "failed", JsUndef)
    /\ direct' = [direct EXCEPT ![calls[c].owner].pc = "thrown"]
    /\ UNCHANGED <<now, app, searches, isSearching, searchResults, searchMetrics,
                   searchSuggestions, recentSearches, suggestionCache,
                   suggestionTimeoutRef, timers, fetches, localStorage, sugLog, histOp>>

\* the call fails: makeRequest throws, basicSearch's catch block logs and returns the
\* empty page
BasicFails(c, reason) ==
    LET d == direct[calls[c].owner]
    IN /\ calls[c].kind = "basic"
       /\ CanFail(calls[c], reason)
       /\ requestMetrics' = makeRequestThrow(requestMetrics)
       /\ calls' = Settle(c, "failed", JsUndef)
       /\ direct' = [direct EXCEPT ![calls[c].owner].pc = "returned",
                                   ![calls[c].owner].ret = JsObj(EmptyPage(d.perPage))]
       /\ UNCHANGED <<now, app, searches, isSearching, searchResults, searchMetrics,
                      searchSuggestions, recentSearches, suggestionCache,
                      suggestionTimeoutRef, timers, fetches, localStorage, sugLog, histOp>>

\* direct calls, the gateway and the clock
NextDirect ==
    \/ /\ Len(direct) < MaxDirect
       /\ \E inp \in DirectInputs : BasicSearch(inp[1], inp[2], inp[3])
    \/ Tick
    \/ \E c \in 1..Len(calls) : HeadersArrive(c)
    \/ \E c \in 1..Len(calls), r \in FallbackBodies : BasicSucceeds(c, r)
    \/ \E c \in 1..Len(calls), reason \in FailureReasons : BasicFails(c, reason)

SpecDirect == Init /\ [][NextDirect]_vars

\* C30 as stated: when the transport of a direct basicSearch call fails, the failure
\* reaches the caller as a thrown error (a rejected promise).
C30_DirectFailureThrown ==
    [][\A c \in 1..Len(calls) :
           (calls[c].kind = "basic" /\ CallFails(c)) =>
               direct'[calls[c].owner].pc = "thrown"]_vars

\* C30 amended: when the transport of a direct basicSearch call fails, the call
\* returns to its caller the empty page (no documents, total 0, page 1, 0 pages, the
\* page size asked for, an `error_` search id); no direct call ever ends thrown.
C30_DirectFailureReturnsEmpty ==
    [][/\ \A c \in 1..Len(calls) :
              (calls[c].kind = "basic" /\ CallFails(c)) =>
                  LET d == direct'[calls[c].owner]
                  IN /\ d.pc = "returned"
                     /\ d.ret.t = "object"
                     /\ d.ret.v.documents = <<>>
                     /\ d.ret.v.totalCount = 0
                     /\ d.ret.v.page = 1
                     /\ d.ret.v.totalPages = 0
                     /\ d.ret.v.hasNextPage = FALSE
                     /\ d.ret.v.perPage = d.perPage
                     /\ d.ret.v.searchId.prefix = "error_"
       /\ \A i \in 1..Len(direct') : direct'[i].pc # "thrown"]_vars

\* a direct call for page 2 was cancelled at the time bound and returned the empty page
C30_Witness ==
    \E c \in 1..Len(calls) :
        /\ calls[c].kind = "basic"
        /\ calls[c].phase = "failed"
        /\ calls[c].end - calls[c].start >= apiTimeout
        /\ direct[calls[c].owner].page = 2
        /\ direct[calls[c].owner].pc = "returned"
        /\ direct[calls[c].owner].ret.v.totalPages = 0
        /\ requestMetrics.failedRequests = 1

-----------------------------------------------------------------------------
(* The gateway's counters under resetMetrics *)

MaxResetSearches == 2   \* searches issued in a run in which the counters may be reset

\* resetMetrics: the counters object is replaced; calls in flight go on
ResetMetrics ==
    /\ requestMetrics' = InitRequestMetrics
    /\ UNCHANGED <<now, app, direct, calls, searches, isSearching, searchResults,
                   searchMetrics, searchSuggestions, recentSearches, suggestionCache,
                   suggestionTimeoutRef, timers, fetches, localStorage, sugLog, histOp>>

\* getPerformanceMetrics: successRate, kept as the fraction num / den
successRate(rm) ==
    IF rm.totalRequests > 0
    THEN [num |-> rm.successfulRequests * 100, den |-> rm.totalRequests]
    ELSE [num |-> 0, den |-> 1]

\* searches, the gateway and resets of its counters (no clock)
NextReset ==
    \/ /\ Len(searches) < MaxResetSearches
       /\ \E inp \in ConcInputs : PerformSearch(inp[1], inp[2], inp[3])
    \/ ResetMetrics
    \/ \E c \in 1..Len(calls) : HeadersArrive(c)
    \/ \E c \in 1..Len(calls), r \in PrimaryBodies : PrimarySucceeds(c, r)
    \/ \E c \in 1..Len(calls), reason \in FailureReasons : PrimaryFails(c, reason)
    \/ \E c \in 1..Len(calls), r \in FallbackBodies : FallbackSucceeds(c, r)
    \/ \E c \in 1..Len(calls), reason \in FailureReasons : FallbackFails(c, reason)

SpecReset == Init /\ [][NextReset]_vars

\* C32: in every reachable state, resets with requests in flight included, the calls
\* counted as settled are no more than the calls counted as started, and the success
\* rate lies between 0 and 100.
C32_CountersConsistent ==
    /\ requestMetrics.successfulRequests + requestMetrics.failedRequests
           <= requestMetrics.totalRequests
    /\ successRate(requestMetrics).num >= 0
    /\ successRate(requestMetrics).num <= 100 * successRate(requestMetrics).den

-----------------------------------------------------------------------------
(* The counters and the window of the search metrics *)

\* C38: in every reachable state, after a restart that loaded the metrics slot and
\* after clearSearchHistory included, successfulSearches is at most totalSearches and
\* the metrics window holds at most min(50, totalSearches) records.
C38_MetricsConsistent ==
    /\ searchMetrics.successfulSearches <= searchMetrics.totalSearches
    /\ Len(searchMetrics.searchHistory)
           <= Min(MetricsWindowCap, searchMetrics.totalSearches)

\* a restart loaded metrics saved after more records than the window holds, one of
\* them of a failure
C38_Witness ==
    /\ histOp.op = "restart"
    /\ localStorage.metrics.t = "object"
    /\ searchMetrics.totalSearches > MetricsWindowCap
    /\ searchMetrics.successfulSearches < searchMetrics.totalSearches
    /\ Len(searchMetrics.searchHistory) = MetricsWindowCap

=============================================================================
